---- MODULE Spec2Model ----
(***************************************************************************)
(* A model of the fv1-asm toolchain: the instruction encoder and decoder,  *)
(* the Program container, the Assembler, the Binary container with its     *)
(* serialisers, the Disassembler with its text formatter, and the lexer    *)
(* and parser that read the text back.                                     *)
(*                                                                         *)
(* Representation of machine values:                                      *)
(*  - a u32 word is the record [hi |-> bits 31..27, lo |-> bits 26..0], so  *)
(*    that every intermediate value stays below 2^31;                      *)
(*  - an f32 is [k |-> "fin", n |-> numerator] standing for n / F32Den, or *)
(*    [k |-> "nan"], [k |-> "inf"], [k |-> "ninf"] (n = 0 there).  Every   *)
(*    S1.14 and S.10 grid value and every half step between two S1.14 grid *)
(*    values is exact in this form, as it is in an f32;                    *)
(*  - a Result is [ok |-> TRUE, val |-> v] or [ok |-> FALSE, err |-> e].   *)
(***************************************************************************)
EXTENDS Integers, Sequences, FiniteSets, TLC

VARIABLES
    inst,       \* SpecEncode: the Instruction handed to encode_instruction
    encoded,    \* SpecEncode: Result of encode_instruction(inst), or NoCall
    decoded,    \* SpecEncode: Result of decode_instruction(encoded.val), or NoCall
    program,    \* SpecAssemble: the Program handed to Assembler::assemble
    assembled,  \* SpecAssemble: [optimize, result] of the last assemble call, or NoCall
    binary,     \* SpecBinary: the words of the Binary value (Binary.instructions)
    origin,     \* SpecBinary: which constructor made `binary`, and the pushes since
    output,     \* SpecBinary: the last value an operation on Binary returned
    text,       \* SpecRoundTrip: the source text the Parser is constructed on
    parser,     \* SpecRoundTrip: the Parser (tokens, pos) and the Program it builds
    image,      \* SpecRoundTrip: the Binary the pipeline currently holds
    trail,      \* SpecRoundTrip: pipeline position and the values of earlier stages
    builder     \* SpecProgram: the ProgramBuilder fed the same appends as `program`

vars == <<inst, encoded, decoded, program, assembled, binary, origin, output,
          text, parser, image, trail, builder>>

-----------------------------------------------------------------------------
(* Program constants                                                       *)

MAX_INSTRUCTIONS == 128

DELAY_RAM_SIZE == 32768

FIXED_POINT_SCALE == 16384

S10_SCALE == 512

BINARY_BYTES == 512

HEX_RECORD_BYTES == 16

\* The f32 denominator of the model: half an S1.14 step.
F32Den == 2 * FIXED_POINT_SCALE

-----------------------------------------------------------------------------
(* Results and machine arithmetic                                          *)

NoCall == [ok |-> FALSE, err |-> [e |-> "NoCall"]]

Ok(v) == [ok |-> TRUE, val |-> v]

Err(e) == [ok |-> FALSE, err |-> e]

Fin(n) == [k |-> "fin", n |-> n]

NaN == [k |-> "nan", n |-> 0]

PosInf == [k |-> "inf", n |-> 0]

NegInf == [k |-> "ninf", n |-> 0]

\* x & mask for a mask of the form 2^k - 1, x an i32 or u32 (two's complement).
Mask(x, mask) == x % (mask + 1)

Shl(x, k) == x * (2 ^ k)

Shr(x, k) == x \div (2 ^ k)

RECURSIVE BitOr(_, _)
BitOr(a, b) ==
    IF a = 0 THEN b
    ELSE IF b = 0 THEN a
    ELSE (IF a % 2 = 1 \/ b % 2 = 1 THEN 1 ELSE 0) + 2 * BitOr(a \div 2, b \div 2)

RECURSIVE BitAnd(_, _)
BitAnd(a, b) ==
    IF a = 0 \/ b = 0 THEN 0
    ELSE (IF a % 2 = 1 /\ b % 2 = 1 THEN 1 ELSE 0) + 2 * BitAnd(a \div 2, b \div 2)

\* (opcode << 27) | body as a u32.
MkWord(opcode, body) ==
    [hi |-> BitOr(opcode, Shr(body, 27)) % 32, lo |-> body % (2 ^ 27)]

NOP_WORD == [hi |-> 0, lo |-> 0]

\* f32::round of n / d (d > 0): to nearest, ties away from zero.
RoundDiv(n, d) ==
    IF n >= 0 THEN (2 * n + d) \div (2 * d) ELSE -((2 * (-n) + d) \div (2 * d))

-----------------------------------------------------------------------------
(* Encoder                                                                 *)

NamedReg(name) == [r |-> name, n |-> 0]

REG(n) == [r |-> "REG", n |-> n]

encode_register(reg) ==
    CASE reg.r = "ADCL" -> Ok(0)
      [] reg.r = "ADCR" -> Ok(1)
      [] reg.r = "DACL" -> Ok(2)
      [] reg.r = "DACR" -> Ok(3)
      [] reg.r = "ADDR_PTR" -> Ok(4)
      [] reg.r = "LR" -> Ok(5)
      [] reg.r = "REG" /\ reg.n < 32 -> Ok(reg.n + 16)
      [] OTHER -> Ok(0)

\* encode_s114 with the upper limit taken as inclusive.
encode_s114_inclusive(value) ==
    IF value.k # "fin" \/ value.n < -2 * F32Den \/ value.n > 2 * F32Den
    THEN Err([e |-> "CoefficientOutOfRange", value |-> value])
    ELSE Ok(Mask(RoundDiv(value.n, F32Den \div FIXED_POINT_SCALE), 32767))

encode_s114(value) ==
    IF value.k # "fin" \/ value.n < -2 * F32Den \/ value.n >= 2 * F32Den
    THEN Err([e |-> "CoefficientOutOfRange", value |-> value])
    ELSE Ok(Mask(RoundDiv(value.n, F32Den \div FIXED_POINT_SCALE), 32767))

encode_s10(value) ==
    IF value.k # "fin" \/ value.n < -F32Den \/ value.n >= F32Den
    THEN Err([e |-> "CoefficientOutOfRange", value |-> value])
    ELSE Ok(Mask(RoundDiv(value.n, F32Den \div S10_SCALE), 2047))

encode_address(addr) ==
    LET max == DELAY_RAM_SIZE - 1
    IN  IF addr > max
        THEN Err([e |-> "AddressOutOfRange", addr |-> addr, max |-> max])
        ELSE Ok(addr)

encode_skip_condition(condition) ==
    CASE condition = "RUN" -> 0
      [] condition = "NEG" -> 1
      [] condition = "GEZ" -> 2
      [] condition = "ZRO" -> 3
      [] condition = "ZRC" -> 4

\* encode_lfo with a three-bit code for RMP1.
encode_lfo_three_bits(lfo) ==
    CASE lfo = "SIN0" -> 0
      [] lfo = "SIN1" -> 1
      [] lfo = "RMP0" -> 2
      [] lfo = "RMP1" -> 4

encode_lfo(lfo) ==
    CASE lfo = "SIN0" -> 0
      [] lfo = "SIN1" -> 1
      [] lfo = "RMP0" -> 2
      [] lfo = "RMP1" -> 3

encode_cho_mode(mode) ==
    CASE mode = "RDA" -> 0
      [] mode = "SOF" -> 2
      [] mode = "RDAL" -> 3

encode_cho_flags(flags) ==
    LET b1 == IF flags.rptr2 THEN 32 ELSE 0
        b2 == IF flags.na THEN BitOr(b1, 16) ELSE b1
        b3 == IF flags.compc THEN BitOr(b2, 8) ELSE b2
        b4 == IF flags.compa THEN BitOr(b3, 4) ELSE b3
    IN  IF flags.rptr2_select THEN BitOr(b4, 2) ELSE b4

\* EncodeRegCoeff with the coefficient field one bit lower.
EncodeRegCoeff_shift5(opcode, i) ==
    LET r == encode_register(i.reg)
        c == encode_s114(i.coeff)
    IN  IF ~r.ok THEN r
        ELSE IF ~c.ok THEN c
        ELSE Ok(MkWord(opcode, BitOr(Shl(r.val, 21), Shl(Mask(c.val, 32767), 5))))

\* opcode | reg << 21 | (s114 & 0x7FFF) << 6    (RDAX, WRAX, RDFX, RDFX2)
EncodeRegCoeff(opcode, i) ==
    LET r == encode_register(i.reg)
        c == encode_s114(i.coeff)
    IN  IF ~r.ok THEN r
        ELSE IF ~c.ok THEN c
        ELSE Ok(MkWord(opcode, BitOr(Shl(r.val, 21), Shl(Mask(c.val, 32767), 6))))

\* opcode | addr << 11 | (s114 & 0x7FF)         (RDA, WRA, WRAP)
EncodeAddrCoeff(opcode, i) ==
    LET a == encode_address(i.addr)
        c == encode_s114(i.coeff)
    IN  IF ~a.ok THEN a
        ELSE IF ~c.ok THEN c
        ELSE Ok(MkWord(opcode, BitOr(Shl(a.val, 11), Mask(c.val, 2047))))

\* opcode | reg << 21                            (MULX, LDAX)
EncodeReg(opcode, i) ==
    LET r == encode_register(i.reg)
    IN  IF ~r.ok THEN r ELSE Ok(MkWord(opcode, Shl(r.val, 21)))

\* opcode | (s114 & 0xFFFF) << 11 | (s10 & 0x7FF)   (SOF, EXP, LOG)
EncodeCoeffOffset(opcode, i) ==
    LET c == encode_s114(i.coeff)
        o == encode_s10(i.offset)
    IN  IF ~c.ok THEN c
        ELSE IF ~o.ok THEN o
        ELSE Ok(MkWord(opcode, BitOr(Shl(Mask(c.val, 65535), 11), Mask(o.val, 2047))))

\* opcode | (mask & 0xFFFFFF)                    (AND, OR, XOR)
EncodeMask(opcode, i) == Ok(MkWord(opcode, Mask(i.mask, 16777215)))

encode_instruction(i) ==
    CASE i.op = "RDAX" -> EncodeRegCoeff(0, i)
      [] i.op = "RDA" -> EncodeAddrCoeff(1, i)
      [] i.op = "RMPA" ->
            LET c == encode_s114(i.coeff)
            IN  IF ~c.ok THEN c ELSE Ok(MkWord(2, Mask(c.val, 8388607)))
      [] i.op = "WRAX" -> EncodeRegCoeff(6, i)
      [] i.op = "WRA" -> EncodeAddrCoeff(7, i)
      [] i.op = "WRAP" -> EncodeAddrCoeff(8, i)
      [] i.op = "MULX" -> EncodeReg(10, i)
      [] i.op = "RDFX" -> EncodeRegCoeff(9, i)
      [] i.op = "RDFX2" -> EncodeRegCoeff(12, i)
      [] i.op = "LDAX" -> EncodeReg(5, i)
      [] i.op = "ABSA" -> Ok(MkWord(11, 0))
      [] i.op = "SOF" -> EncodeCoeffOffset(13, i)
      [] i.op = "AND" -> EncodeMask(15, i)
      [] i.op = "OR" -> EncodeMask(16, i)
      [] i.op = "XOR" -> EncodeMask(17, i)
      [] i.op = "SHL" -> Ok(MkWord(18, 0))
      [] i.op = "SHR" -> Ok(MkWord(19, 0))
      [] i.op = "CLR" -> Ok(MkWord(14, 0))
      [] i.op = "NOP" -> Ok(NOP_WORD)
      [] i.op = "EXP" -> EncodeCoeffOffset(20, i)
      [] i.op = "LOG" -> EncodeCoeffOffset(21, i)
      [] i.op = "SKP" ->
            \* offset is an i8: `as u32` sign-extends, & 0x3F keeps six bits
            Ok(MkWord(22, BitOr(Shl(encode_skip_condition(i.condition), 24),
                                Shl(Mask(i.offset, 63), 18))))
      [] i.op = "WLDS" ->
            Ok(MkWord(23, BitOr(BitOr(Shl(encode_lfo(i.lfo), 25),
                                      Shl(Mask(i.freq, 511), 9)),
                                Mask(i.amplitude, 511))))
      [] i.op = "JAM" -> Ok(MkWord(24, Shl(encode_lfo(i.lfo), 25)))
      [] i.op = "CHO" ->
            LET a == encode_address(i.addr)
            IN  IF ~a.ok THEN a
                ELSE Ok(MkWord(25,
                        BitOr(BitOr(BitOr(Shl(encode_cho_mode(i.mode), 24),
                                          Shl(encode_lfo(i.lfo), 22)),
                                    Shl(encode_cho_flags(i.flags), 16)),
                              Mask(a.val, 65535))))

-----------------------------------------------------------------------------
(* Decoder                                                                 *)

\* (word >> shift) & mask
Field(word, shift, mask) ==
    IF shift = 0
    THEN Mask(word.lo, mask)
    ELSE Mask(Shl(word.hi, 27 - shift) + Shr(word.lo, shift), mask)

decode_register(bits) ==
    CASE bits = 0 -> Ok(NamedReg("ADCL"))
      [] bits = 1 -> Ok(NamedReg("ADCR"))
      [] bits = 2 -> Ok(NamedReg("DACL"))
      [] bits = 3 -> Ok(NamedReg("DACR"))
      [] bits = 4 -> Ok(NamedReg("ADDR_PTR"))
      [] bits = 5 -> Ok(NamedReg("LR"))
      [] bits >= 16 /\ bits < 48 -> Ok(REG(bits - 16))
      [] OTHER -> Err([e |-> "InvalidRegister", bits |-> bits])

\* (bits | 0xFFFF8000) as i32 is (bits & 0x7FFF) - 2^15; the quotient by
\* 16384.0 is exact.
decode_s114(bits) ==
    IF BitAnd(bits, 16384) # 0
    THEN Ok(Fin((Mask(bits, 32767) - 32768) * (F32Den \div FIXED_POINT_SCALE)))
    ELSE Ok(Fin(bits * (F32Den \div FIXED_POINT_SCALE)))

\* (bits | 0xFFFFF800) as i32 is (bits & 0x7FF) - 2^11.
decode_s10(bits) ==
    IF BitAnd(bits, 1024) # 0
    THEN Ok(Fin((Mask(bits, 2047) - 2048) * (F32Den \div S10_SCALE)))
    ELSE Ok(Fin(bits * (F32Den \div S10_SCALE)))

decode_skip_condition(bits) ==
    CASE bits = 0 -> Ok("RUN")
      [] bits = 1 -> Ok("NEG")
      [] bits = 2 -> Ok("GEZ")
      [] bits = 3 -> Ok("ZRO")
      [] bits = 4 -> Ok("ZRC")
      [] OTHER -> Err([e |-> "InvalidSkipCondition", bits |-> bits])

decode_lfo(bits) ==
    CASE bits = 0 -> Ok("SIN0")
      [] bits = 1 -> Ok("SIN1")
      [] bits = 2 -> Ok("RMP0")
      [] bits = 3 -> Ok("RMP1")
      [] OTHER -> Err([e |-> "InvalidLfo", bits |-> bits])

\* decode_cho_mode with the code 1 taken for RDA.
decode_cho_mode_total(bits) ==
    CASE bits \in {0, 1} -> Ok("RDA")
      [] bits = 2 -> Ok("SOF")
      [] bits = 3 -> Ok("RDAL")
      [] OTHER -> Err([e |-> "InvalidChoMode", bits |-> bits])

decode_cho_mode(bits) ==
    CASE bits = 0 -> Ok("RDA")
      [] bits = 2 -> Ok("SOF")
      [] bits = 3 -> Ok("RDAL")
      [] OTHER -> Err([e |-> "InvalidChoMode", bits |-> bits])

decode_cho_flags(bits) ==
    [rptr2 |-> BitAnd(bits, 32) # 0,
     na |-> BitAnd(bits, 16) # 0,
     compc |-> BitAnd(bits, 8) # 0,
     compa |-> BitAnd(bits, 4) # 0,
     rptr2_select |-> BitAnd(bits, 2) # 0]

DecodeRegCoeff(op, word) ==
    LET r == decode_register(Field(word, 21, 63))
        c == decode_s114(Field(word, 6, 32767))
    IN  IF ~r.ok THEN r
        ELSE IF ~c.ok THEN c
        ELSE Ok([op |-> op, reg |-> r.val, coeff |-> c.val])

DecodeAddrCoeff(op, word) ==
    LET c == decode_s114(Field(word, 0, 2047))
    IN  IF ~c.ok THEN c
        ELSE Ok([op |-> op, addr |-> Field(word, 11, 65535), coeff |-> c.val])

DecodeReg(op, word) ==
    LET r == decode_register(Field(word, 21, 63))
    IN  IF ~r.ok THEN r ELSE Ok([op |-> op, reg |-> r.val])

DecodeCoeffOffset(op, word) ==
    LET c == decode_s114(Field(word, 11, 65535))
        o == decode_s10(Field(word, 0, 2047))
    IN  IF ~c.ok THEN c
        ELSE IF ~o.ok THEN o
        ELSE Ok([op |-> op, coeff |-> c.val, offset |-> o.val])

DecodeMask(op, word) == Ok([op |-> op, mask |-> Field(word, 0, 16777215)])

\* match opcode { ... }
decode_opcode(word) ==
    LET opcode == Field(word, 27, 31)
    IN  CASE opcode = 0 -> DecodeRegCoeff("RDAX", word)
          [] opcode = 1 -> DecodeAddrCoeff("RDA", word)
          [] opcode = 2 ->
                LET c == decode_s114(Field(word, 0, 8388607))
                IN  IF ~c.ok THEN c ELSE Ok([op |-> "RMPA", coeff |-> c.val])
          [] opcode = 6 -> DecodeRegCoeff("WRAX", word)
          [] opcode = 7 -> DecodeAddrCoeff("WRA", word)
          [] opcode = 8 -> DecodeAddrCoeff("WRAP", word)
          [] opcode = 10 -> DecodeReg("MULX", word)
          [] opcode = 9 -> DecodeRegCoeff("RDFX", word)
          [] opcode = 12 -> DecodeRegCoeff("RDFX2", word)
          [] opcode = 5 -> DecodeReg("LDAX", word)
          [] opcode = 11 -> Ok([op |-> "ABSA"])
          [] opcode = 13 -> DecodeCoeffOffset("SOF", word)
          [] opcode = 15 -> DecodeMask("AND", word)
          [] opcode = 16 -> DecodeMask("OR", word)
          [] opcode = 17 -> DecodeMask("XOR", word)
          [] opcode = 18 -> Ok([op |-> "SHL"])
          [] opcode = 19 -> Ok([op |-> "SHR"])
          [] opcode = 14 -> Ok([op |-> "CLR"])
          [] opcode = 20 -> DecodeCoeffOffset("EXP", word)
          [] opcode = 21 -> DecodeCoeffOffset("LOG", word)
          [] opcode = 22 ->
                LET c == decode_skip_condition(Field(word, 24, 7))
                IN  IF ~c.ok THEN c
                    ELSE Ok([op |-> "SKP", condition |-> c.val,
                             offset |-> Field(word, 18, 63)])
          [] opcode = 23 ->
                LET l == decode_lfo(Field(word, 25, 3))
                IN  IF ~l.ok THEN l
                    ELSE Ok([op |-> "WLDS", lfo |-> l.val,
                             freq |-> Field(word, 9, 511),
                             amplitude |-> Field(word, 0, 511)])
          [] opcode = 24 ->
                LET l == decode_lfo(Field(word, 25, 3))
                IN  IF ~l.ok THEN l ELSE Ok([op |-> "JAM", lfo |-> l.val])
          [] opcode = 25 ->
                LET m == decode_cho_mode(Field(word, 24, 3))
                    l == decode_lfo(Field(word, 22, 3))
                IN  IF ~m.ok THEN m
                    ELSE IF ~l.ok THEN l
                    ELSE Ok([op |-> "CHO", mode |-> m.val, lfo |-> l.val,
                             flags |-> decode_cho_flags(Field(word, 16, 63)),
                             addr |-> Field(word, 0, 65535)])
          [] OTHER -> Err([e |-> "InvalidOpcode", opcode |-> opcode])

\* decode_instruction with no special case for the zero word.
decode_instruction_by_opcode(word) == decode_opcode(word)

decode_instruction(word) ==
    IF word = NOP_WORD THEN Ok([op |-> "NOP"]) ELSE decode_opcode(word)

-----------------------------------------------------------------------------
(* SpecEncode: encode_instruction and decode_instruction applied to        *)
(* instructions drawn from bounded operand sets                            *)

\* S1.14 grid values k/16384 in [-2.0, 2.0), as numerators over F32Den.
CoeffGrid ==
    {Fin(n) : n \in {-65536, -49152, -32768, -32766, -16384, -2, 0, 2, 8192,
                     16384, 24576, 32766, 32768, 49152, 65534}}

\* In range but between two grid values.
CoeffOffGrid == {Fin(n) : n \in {-65535, -1, 1, 16385, 65535}}

\* 2.0, 3.0, just below -2.0, -4.0, and the non-finite values.
CoeffBad == {Fin(n) : n \in {65536, 98304, -65537, -131072}} \cup {NaN, PosInf, NegInf}

CoeffPool == CoeffGrid \cup CoeffOffGrid \cup CoeffBad

\* S.10 grid values k/512 in [-1.0, 1.0).
OffsetGrid == {Fin(n) : n \in {-32768, -16384, -8192, -64, 0, 64, 16384, 32704}}

\* In range but between two grid values.
OffsetOffGrid == {Fin(n) : n \in {-32767, 1, 32767}}

\* 1.0, 1.5, just below -1.0, and the non-finite values.
OffsetBad == {Fin(n) : n \in {32768, 49152, -32769}} \cup {NaN, PosInf, NegInf}

OffsetPool == OffsetGrid \cup OffsetOffGrid \cup OffsetBad

AddrGood == {0, 1, 2047, 2048, 32767}

AddrBad == {32768, 40000, 65535}

AddrPool == AddrGood \cup AddrBad

MaskGood == {0, 1, 65535, 8388608, 16777215}

MaskBad == {16777216, 33554431}

MaskPool == MaskGood \cup MaskBad

RegGood ==
    {NamedReg(r) : r \in {"ADCL", "ADCR", "DACL", "DACR", "ADDR_PTR", "LR"}}
    \cup {REG(n) : n \in {0, 1, 15, 16, 31}}

\* ACC and the LFO rate/range registers have no code of their own.
RegOther ==
    {NamedReg(r) : r \in {"ACC", "SIN0_RATE", "SIN0_RANGE", "SIN1_RATE", "SIN1_RANGE",
                          "RMP0_RATE", "RMP0_RANGE", "RMP1_RATE", "RMP1_RANGE"}}

RegPool == RegGood \cup RegOther

Lfos == {"SIN0", "SIN1", "RMP0", "RMP1"}

SkipConditions == {"GEZ", "NEG", "ZRC", "ZRO", "RUN"}

ChoModes == {"RDA", "SOF", "RDAL"}

ChoFlagSets ==
    [rptr2 : BOOLEAN, na : BOOLEAN, compc : BOOLEAN, compa : BOOLEAN,
     rptr2_select : BOOLEAN]

NoFlags ==
    [rptr2 |-> FALSE, na |-> FALSE, compc |-> FALSE, compa |-> FALSE,
     rptr2_select |-> FALSE]

\* i8 skip offsets; those in 0..31 fit the 6-bit field under either reading.
SkipOffsetGood == {0, 1, 31}

SkipOffsetPool == SkipOffsetGood \cup {-128, -32, -1, 32, 63, 127}

\* u16 WLDS operands; those below 512 fit the 9-bit fields.
LfoParamGood == {0, 1, 511}

LfoParamPool == LfoParamGood \cup {512, 32767}

Instructions(regs, coeffs, offsets, addrs, masks, skips, params) ==
    [op : {"RDAX", "WRAX", "RDFX", "RDFX2"}, reg : regs, coeff : coeffs]
    \cup [op : {"RDA", "WRA", "WRAP"}, addr : addrs, coeff : coeffs]
    \cup [op : {"RMPA"}, coeff : coeffs]
    \cup [op : {"MULX", "LDAX"}, reg : regs]
    \cup [op : {"ABSA", "SHL", "SHR", "CLR", "NOP"}]
    \cup [op : {"SOF", "EXP", "LOG"}, coeff : coeffs, offset : offsets]
    \cup [op : {"AND", "OR", "XOR"}, mask : masks]
    \cup [op : {"SKP"}, condition : SkipConditions, offset : skips]
    \cup [op : {"WLDS"}, lfo : Lfos, freq : params, amplitude : params]
    \cup [op : {"JAM"}, lfo : Lfos]
    \cup [op : {"CHO"}, mode : ChoModes, lfo : Lfos, flags : ChoFlagSets,
          addr : addrs]

\* Every instruction the model hands to the encoder.
InstPool ==
    Instructions(RegPool, CoeffPool, OffsetPool, AddrPool, MaskPool,
                 SkipOffsetPool, LfoParamPool)

\* The documented valid operand domain.
InstDomain ==
    Instructions(RegGood, CoeffGrid, OffsetGrid, AddrGood, MaskGood,
                 SkipOffsetGood, LfoParamGood)

IdleEncode == inst = [op |-> "NOP"] /\ encoded = NoCall /\ decoded = NoCall

IdleAssemble == program = NoCall /\ assembled = NoCall

\* No Binary has been constructed and no operation has returned yet.
NoOrigin == [by |-> "none", pushes |-> 0]

NoOutput == [op |-> "none"]

IdleBinary == binary = <<>> /\ origin = NoOrigin /\ output = NoOutput

IdleRoundTrip == text = <<>> /\ parser = NoCall /\ image = <<>> /\ trail = NoCall

IdleBuilder == builder = NoCall

InitEncode ==
    /\ inst \in InstPool
    /\ encoded = NoCall
    /\ decoded = NoCall
    /\ IdleBuilder /\ IdleAssemble /\ IdleBinary /\ IdleRoundTrip

Encode ==
    /\ encoded = NoCall
    /\ encoded' = encode_instruction(inst)
    /\ UNCHANGED <<builder, inst, decoded, program, assembled, binary, origin, output,
                   text, parser, image, trail>>

Decode ==
    /\ encoded.ok
    /\ decoded = NoCall
    /\ decoded' = decode_instruction(encoded.val)
    /\ UNCHANGED <<builder, inst, encoded, program, assembled, binary, origin, output,
                   text, parser, image, trail>>

NextEncode == Encode \/ Decode

SpecEncode == InitEncode /\ [][NextEncode]_vars

-----------------------------------------------------------------------------
(* Claims checked under SpecEncode                                         *)

HasCoeff(i) ==
    i.op \in {"RDAX", "WRAX", "RDFX", "RDFX2", "RDA", "WRA", "WRAP", "RMPA",
              "SOF", "EXP", "LOG"}

HasS10Offset(i) == i.op \in {"SOF", "EXP", "LOG"}

HasAddr(i) == i.op \in {"RDA", "WRA", "WRAP", "CHO"}

BadCoeff(i) == HasCoeff(i) /\ i.coeff \notin (CoeffGrid \cup CoeffOffGrid)

BadOffset(i) == HasS10Offset(i) /\ i.offset \notin (OffsetGrid \cup OffsetOffGrid)

BadAddr(i) == HasAddr(i) /\ i.addr >= DELAY_RAM_SIZE

CoefficientOutOfRange(value) == Err([e |-> "CoefficientOutOfRange", value |-> value])

AddressOutOfRange(addr) ==
    Err([e |-> "AddressOutOfRange", addr |-> addr, max |-> DELAY_RAM_SIZE - 1])

\* C3: every instruction of the documented operand domain is encoded, and
\* decoding the word gives the instruction back.
C3_RoundTripInDomain ==
    inst \in InstDomain =>
        /\ encoded # NoCall => encoded.ok
        /\ decoded # NoCall => decoded = Ok(inst)

\* C4 as stated: each out-of-range coefficient, offset and address yields
\* the error that carries that very operand, whatever the other operands
\* are, and an instruction whose operands are all in range is encoded.
C4_EachBadOperandReported ==
    encoded # NoCall =>
        /\ BadCoeff(inst) => encoded = CoefficientOutOfRange(inst.coeff)
        /\ BadOffset(inst) => encoded = CoefficientOutOfRange(inst.offset)
        /\ BadAddr(inst) => encoded = AddressOutOfRange(inst.addr)
        /\ ~BadCoeff(inst) /\ ~BadOffset(inst) /\ ~BadAddr(inst) => encoded.ok

\* C4, amended: an instruction with an out-of-range operand is never
\* encoded, and the error is that of the first such operand in the order the
\* encoder reads them (address, then coefficient, then offset); an instruction
\* whose operands are all in range is encoded.
C4_FirstBadOperandReported ==
    encoded # NoCall =>
        /\ BadAddr(inst) => encoded = AddressOutOfRange(inst.addr)
        /\ BadCoeff(inst) /\ ~BadAddr(inst) =>
                encoded = CoefficientOutOfRange(inst.coeff)
        /\ BadOffset(inst) /\ ~BadCoeff(inst) =>
                encoded = CoefficientOutOfRange(inst.offset)
        /\ ~BadCoeff(inst) /\ ~BadOffset(inst) /\ ~BadAddr(inst) => encoded.ok

\* An address error reported for an instruction whose coefficient is out of
\* range too, and an accepted coefficient next to the upper limit.
C4_Witness ==
    \/ /\ inst.op = "RDA" /\ BadCoeff(inst) /\ BadAddr(inst)
       /\ encoded = AddressOutOfRange(inst.addr)
    \/ /\ inst.op = "SOF" /\ inst.coeff = Fin(2 * F32Den - 2) /\ BadOffset(inst)
       /\ encoded = CoefficientOutOfRange(inst.offset)

-----------------------------------------------------------------------------
(* Program (ast.rs)                                                        *)

Label(name) == [kind |-> "Label", label |-> name]

Instruction(i) == [kind |-> "Instruction", instruction |-> i]

LabeledInstruction(name, i) ==
    [kind |-> "LabeledInstruction", label |-> name, instruction |-> i]

\* labels is the HashMap: a function from the defined names to indices.
Program_new == [directives |-> <<>>, statements |-> <<>>, labels |-> <<>>]

\* filter_map over the statements: bare labels contribute nothing.
instructions(prog) ==
    LET kept == SelectSeq(prog.statements, LAMBDA st : st.kind # "Label")
    IN  [k \in 1..Len(kept) |-> kept[k].instruction]

instruction_count(prog) ==
    Cardinality({k \in 1..Len(prog.statements) :
                    prog.statements[k].kind \in {"Instruction", "LabeledInstruction"}})

HashMap_insert(map, key, value) ==
    [n \in DOMAIN map \cup {key} |-> IF n = key THEN value ELSE map[n]]

\* add_statement with the index read after the statement is pushed.
add_statement_count_after(prog, statement) ==
    LET pushed == [prog EXCEPT !.statements = Append(@, statement)]
    IN  [pushed EXCEPT
            !.labels =
                IF statement.kind \in {"Label", "LabeledInstruction"}
                THEN HashMap_insert(@, statement.label, instruction_count(pushed))
                ELSE @]

add_statement(prog, statement) ==
    [prog EXCEPT
        !.labels =
            IF statement.kind \in {"Label", "LabeledInstruction"}
            THEN HashMap_insert(@, statement.label, instruction_count(prog))
            ELSE @,
        !.statements = Append(@, statement)]

-----------------------------------------------------------------------------
(* Binary container and Assembler (codegen/assembler.rs)                   *)

Binary_new == <<>>

Binary_push(bin, instruction) == Append(bin, instruction)

optimize_binary(bin) == Ok(bin)

\* for inst in instructions[lo..=hi] { binary.push(encode_instruction(inst)?) }
\* The range is walked left to right in halves, which keeps the nesting shallow;
\* the first failure ends the walk.
RECURSIVE EncodeEach(_, _, _, _)
EncodeEach(insts, lo, hi, bin) ==
    IF lo > hi THEN Ok(bin)
    ELSE IF lo = hi
    THEN LET e == encode_instruction(insts[lo])
         IN  IF ~e.ok THEN e ELSE Ok(Binary_push(bin, e.val))
    ELSE LET mid == (lo + hi) \div 2
             left == EncodeEach(insts, lo, mid, bin)
         IN  IF ~left.ok THEN left ELSE EncodeEach(insts, mid + 1, hi, left.val)

\* PadWithNops with the loop test off by one (<=).
PadWithNops_one_more(bin) ==
    IF Len(bin) <= MAX_INSTRUCTIONS
    THEN bin \o [k \in 1..(MAX_INSTRUCTIONS + 1 - Len(bin)) |-> NOP_WORD]
    ELSE bin

\* while binary.len() < MAX_INSTRUCTIONS { binary.push(0x00000000) }
PadWithNops(bin) ==
    IF Len(bin) < MAX_INSTRUCTIONS
    THEN bin \o [k \in 1..(MAX_INSTRUCTIONS - Len(bin)) |-> NOP_WORD]
    ELSE bin

\* assemble that leaves out the instructions that do not encode.
assemble_recovering(optimize, prog) ==
    LET insts == instructions(prog)
        kept == SelectSeq(insts, LAMBDA i : encode_instruction(i).ok)
    IN  IF Len(insts) > MAX_INSTRUCTIONS
        THEN Err([e |-> "ProgramTooLarge", size |-> Len(insts), max |-> MAX_INSTRUCTIONS])
        ELSE Ok(PadWithNops(EncodeEach(kept, 1, Len(kept), Binary_new).val))

\* assemble with the size check made after the encoding loop.
assemble_check_last(optimize, prog) ==
    LET insts == instructions(prog)
        enc == EncodeEach(insts, 1, Len(insts), Binary_new)
    IN  IF ~enc.ok THEN enc
        ELSE IF Len(insts) > MAX_INSTRUCTIONS
        THEN Err([e |-> "ProgramTooLarge", size |-> Len(insts), max |-> MAX_INSTRUCTIONS])
        ELSE IF optimize THEN optimize_binary(PadWithNops(enc.val))
        ELSE Ok(PadWithNops(enc.val))

assemble(optimize, prog) ==
    LET insts == instructions(prog)
    IN  IF Len(insts) > MAX_INSTRUCTIONS
        THEN Err([e |-> "ProgramTooLarge", size |-> Len(insts), max |-> MAX_INSTRUCTIONS])
        ELSE LET enc == EncodeEach(insts, 1, Len(insts), Binary_new)
             IN  IF ~enc.ok THEN enc
                 ELSE IF optimize THEN optimize_binary(PadWithNops(enc.val))
                 ELSE Ok(PadWithNops(enc.val))

-----------------------------------------------------------------------------
(* SpecAssemble: Assembler::assemble applied to Programs built with        *)
(* add_statement                                                           *)

\* Longest varied opening of a Program, in statements.
MaxHead == 2

\* add_statement applied to each of stmts in order.  The sequence is walked
\* left to right in halves, the left half being finished before the right
\* one is started, which keeps the nesting shallow.
RECURSIVE BuildProgram(_, _)
BuildProgram(prog, stmts) ==
    IF stmts = <<>> THEN prog
    ELSE IF Len(stmts) = 1 THEN add_statement(prog, stmts[1])
    ELSE LET mid == Len(stmts) \div 2
             left == BuildProgram(prog, SubSeq(stmts, 1, mid))
         IN  IF Len(left.statements) >= mid
             THEN BuildProgram(left, SubSeq(stmts, mid + 1, Len(stmts)))
             ELSE left

\* The last two cannot be encoded (address, coefficient out of range).
HeadStatements ==
    {Instruction([op |-> "CLR"]),
     Instruction([op |-> "RDAX", reg |-> NamedReg("ADCL"), coeff |-> Fin(F32Den)]),
     Label("start"),
     LabeledInstruction("loop", [op |-> "WRAX", reg |-> NamedReg("DACL"), coeff |-> Fin(0)]),
     Instruction([op |-> "RDA", addr |-> 40000, coeff |-> Fin(16384)]),
     Instruction([op |-> "SOF", coeff |-> Fin(98304), offset |-> Fin(0)])}

\* The statement a Program is filled up with, as a loop of add_statement does.
FillStatements ==
    {Instruction([op |-> "NOP"]),
     Instruction([op |-> "ABSA"]),
     Instruction([op |-> "WRA", addr |-> 32768, coeff |-> Fin(0)])}

FillCounts == {0, 1, 126, 127, 128, 129, 130}

Heads == UNION {[1..n -> HeadStatements] : n \in 0..MaxHead}

Programs ==
    {BuildProgram(Program_new, h \o [k \in 1..n |-> f]) :
        h \in Heads, f \in FillStatements, n \in FillCounts}

InitAssemble ==
    /\ program \in Programs
    /\ assembled = NoCall
    /\ IdleBuilder /\ IdleEncode /\ IdleBinary /\ IdleRoundTrip

Assemble(optimize) ==
    /\ assembled = NoCall
    /\ assembled' = [optimize |-> optimize, result |-> assemble(optimize, program)]
    /\ UNCHANGED <<builder, inst, encoded, decoded, program, binary, origin, output,
                   text, parser, image, trail>>

NextAssemble == \E optimize \in BOOLEAN : Assemble(optimize)

SpecAssemble == InitAssemble /\ [][NextAssemble]_vars

-----------------------------------------------------------------------------
(* Claims checked under SpecAssemble                                       *)

\* The positions of the statements that carry an instruction, ascending.
Bearing(prog) ==
    SelectSeq([p \in 1..Len(prog.statements) |-> p],
              LAMBDA p : prog.statements[p].kind # "Label")

\* The k-th instruction in source order, read off the statements.
NthInstruction(prog, k) == prog.statements[Bearing(prog)[k]].instruction

AllEncodable(prog) ==
    \A k \in 1..Len(Bearing(prog)) : encode_instruction(NthInstruction(prog, k)).ok

\* C1: a Program of N <= 128 instructions that all encode assembles to
\* exactly 128 words: the encodings in source order (labels adding nothing),
\* then zero words; and the optimisation flag changes nothing.
C1_AssemblePadsTo128 ==
    LET at == Bearing(program)
        N == Len(at)
        enc == [k \in 1..N |-> encode_instruction(program.statements[at[k]].instruction)]
    IN  assembled # NoCall /\ N <= MAX_INSTRUCTIONS /\ (\A k \in 1..N : enc[k].ok) =>
            /\ assembled.result.ok
            /\ Len(assembled.result.val) = 128
            /\ \A k \in 1..N : assembled.result.val[k] = enc[k].val
            /\ \A k \in (N + 1)..128 : assembled.result.val[k] = NOP_WORD
            /\ assembled.result = assemble(~assembled.optimize, program)

\* A Program of exactly 128 instructions with a label among its statements,
\* assembled with the optimisation flag on.
C1_Witness ==
    /\ assembled # NoCall /\ assembled.optimize /\ assembled.result.ok
    /\ Len(Bearing(program)) = MAX_INSTRUCTIONS
    /\ Len(program.statements) > MAX_INSTRUCTIONS

\* C2: a Program of N > 128 instructions is refused with
\* ProgramTooLarge{size: N, max: 128}, also when one of its instructions
\* could not be encoded.
C2_TooLargeFirst ==
    LET N == Len(Bearing(program))
    IN  assembled # NoCall /\ N > MAX_INSTRUCTIONS =>
            assembled.result
                = Err([e |-> "ProgramTooLarge", size |-> N, max |-> 128])

\* 129 or more instructions, one of which cannot be encoded.
C2_Witness ==
    /\ assembled # NoCall
    /\ Len(Bearing(program)) > MAX_INSTRUCTIONS
    /\ ~AllEncodable(program)
    /\ ~assembled.result.ok /\ assembled.result.err.e = "ProgramTooLarge"

-----------------------------------------------------------------------------
(* Binary: raw bytes and Intel HEX (assembler.rs)                          *)

to_le_bytes(word) ==
    <<Mask(word.lo, 255), Mask(Shr(word.lo, 8), 255),
      Mask(Shr(word.lo, 16), 255), word.hi * 8 + Shr(word.lo, 24)>>

\* u32::to_be_bytes
to_be_bytes(word) ==
    <<word.hi * 8 + Shr(word.lo, 24), Mask(Shr(word.lo, 16), 255),
      Mask(Shr(word.lo, 8), 255), Mask(word.lo, 255)>>

\* u32::from_be_bytes
from_be_bytes(chunk) ==
    [hi |-> Shr(chunk[1], 3),
     lo |-> Shl(Mask(chunk[1], 7), 24) + Shl(chunk[2], 16) + Shl(chunk[3], 8)
            + chunk[4]]

\* slice::chunks_exact(4): the whole chunks only.
chunks_exact(bytes, size) ==
    [k \in 1..(Len(bytes) \div size) |->
        SubSeq(bytes, (k - 1) * size + 1, k * size)]

\* slice::chunks(16): the last chunk holds what is left.
chunks(bytes, size) ==
    [k \in 1..((Len(bytes) + size - 1) \div size) |->
        SubSeq(bytes, (k - 1) * size + 1,
               IF k * size < Len(bytes) THEN k * size ELSE Len(bytes))]

InvalidBinarySize(size) ==
    Err([e |-> "InvalidBinarySize", size |-> size, expected |-> BINARY_BYTES])

from_bytes_whole_words(bytes) ==
    IF Len(bytes) % 4 # 0 \/ Len(bytes) = 0
    THEN InvalidBinarySize(Len(bytes))
    ELSE Ok([k \in 1..(Len(bytes) \div 4) |->
                from_be_bytes(chunks_exact(bytes, 4)[k])])

from_bytes(bytes) ==
    IF Len(bytes) # BINARY_BYTES
    THEN InvalidBinarySize(Len(bytes))
    ELSE LET chunk == chunks_exact(bytes, 4)
         IN  Ok([k \in 1..Len(chunk) |-> from_be_bytes(chunk[k])])

to_bytes(bin) ==
    [k \in 1..(4 * Len(bin)) |-> 
        to_be_bytes(bin[((k - 1) \div 4) + 1])[((k - 1) % 4) + 1]]

HexDigit == <<"0", "1", "2", "3", "4", "5", "6", "7", "8", "9",
              "A", "B", "C", "D", "E", "F">>

\* format!("{:X}", n)
RECURSIVE UpperHex(_)
UpperHex(n) ==
    IF n < 16 THEN <<HexDigit[n + 1]>>
    ELSE UpperHex(n \div 16) \o <<HexDigit[(n % 16) + 1]>>

\* format!("{:0wX}", n): zero padded to at least w digits.
UpperHexPadded(n, w) ==
    LET digits == UpperHex(n)
    IN  [k \in 1..(IF Len(digits) < w THEN w - Len(digits) ELSE 0) |-> "0"] \o digits

RECURSIVE Sum(_, _)
Sum(bytes, k) == IF k = 0 THEN 0 ELSE bytes[k] + Sum(bytes, k - 1)

RECURSIVE Concat(_, _)
Concat(parts, k) == IF k = 0 THEN <<>> ELSE Concat(parts, k - 1) \o parts[k]

record_checksum_ones_complement(sum) == Mask(255 - Mask(sum, 255), 255)

\* checksum = (256 - (checksum & 0xFF)) & 0xFF
record_checksum(sum) == Mask(256 - Mask(sum, 255), 255)

\* One data record of to_hex: the body of its loop for chunk i (from 0).
hex_record(i, chunk) ==
    LET addr == i * HEX_RECORD_BYTES
        len == Len(chunk)
        checksum == len + Shr(addr, 8) + Mask(addr, 255) + Sum(chunk, len)
    IN  <<":">> \o UpperHexPadded(len, 2) \o UpperHexPadded(addr, 4) \o <<"0", "0">>
        \o Concat([k \in 1..len |-> UpperHexPadded(chunk[k], 2)], len)
        \o UpperHexPadded(record_checksum(checksum), 2) \o <<"\n">>

HEX_EOF_RECORD == <<":", "0", "0", "0", "0", "0", "0", "0", "1", "F", "F", "\n">>

to_hex(bin) ==
    LET chunk == chunks(to_bytes(bin), HEX_RECORD_BYTES)
    IN  Concat([k \in 1..Len(chunk) |-> hex_record(k - 1, chunk[k])], Len(chunk))
        \o HEX_EOF_RECORD

-----------------------------------------------------------------------------
(* SpecBinary: one Binary value driven through its public operations       *)

\* Pushes made on one Binary since it was constructed.
MaxPush == 2

\* 0x12345678, 0xABCDEF00 (the words of test_binary_push) and 0x00000000.
PushWords ==
    {[hi |-> 0, lo |-> 0], [hi |-> 2, lo |-> 36984440],
     [hi |-> 21, lo |-> 63827712]}

BufferLengths == {0, 1, 4, 508, 511, 512, 513, 516, 1024}

\* Byte buffers: a ramp 0, 1, ..., 255, 0, ... of every length, and the
\* all-zero and all-0xFF buffers of 512 bytes.
Buffers ==
    {[k \in 1..n |-> (k - 1) % 256] : n \in BufferLengths}
    \cup {[k \in 1..BINARY_BYTES |-> b] : b \in {0, 255}}

\* Programs for Assembler::assemble: empty, two instructions, one that
\* does not encode.
BinaryPrograms ==
    {BuildProgram(Program_new, stmts) :
        stmts \in {<<>>,
                   <<Instruction([op |-> "RDAX", reg |-> NamedReg("ADCR"),
                                  coeff |-> Fin(F32Den \div 2)]),
                     Instruction([op |-> "WRAX", reg |-> NamedReg("DACL"),
                                  coeff |-> Fin(0)])>>,
                   <<Instruction([op |-> "WRA", addr |-> DELAY_RAM_SIZE,
                                  coeff |-> Fin(0)])>>}}

InitBinary ==
    /\ binary = Binary_new
    /\ origin = [by |-> "new", pushes |-> 0]
    /\ output = [op |-> "new"]
    /\ IdleBuilder /\ IdleEncode /\ IdleAssemble /\ IdleRoundTrip

BinaryNew ==
    /\ binary' = Binary_new
    /\ origin' = [by |-> "new", pushes |-> 0]
    /\ output' = [op |-> "new"]
    /\ UNCHANGED <<builder, inst, encoded, decoded, program, assembled, text, parser,
                   image, trail>>

Push(instruction) ==
    /\ origin.pushes < MaxPush
    /\ binary' = Binary_push(binary, instruction)
    /\ origin' = [origin EXCEPT !.pushes = @ + 1]
    /\ output' = [op |-> "push"]
    /\ UNCHANGED <<builder, inst, encoded, decoded, program, assembled, text, parser,
                   image, trail>>

\* A Result that is Ok replaces the Binary at hand; an Err leaves it.
Construct(by, result) ==
    IF result.ok
    THEN binary' = result.val /\ origin' = [by |-> by, pushes |-> 0]
    ELSE UNCHANGED <<binary, origin>>

FromBytes(bytes) ==
    /\ output' = [op |-> "from_bytes", arg |-> bytes, result |-> from_bytes(bytes)]
    /\ Construct("from_bytes", output'.result)
    /\ UNCHANGED <<builder, inst, encoded, decoded, program, assembled, text, parser,
                   image, trail>>

AssembleBinary(prog) ==
    /\ output' = [op |-> "assemble", result |-> assemble(FALSE, prog)]
    /\ Construct("assemble", output'.result)
    /\ UNCHANGED <<builder, inst, encoded, decoded, program, assembled, text, parser,
                   image, trail>>

ToBytes ==
    /\ output' = [op |-> "to_bytes", self |-> binary, val |-> to_bytes(binary)]
    /\ UNCHANGED <<binary, origin>>
    /\ UNCHANGED <<builder, inst, encoded, decoded, program, assembled, text, parser,
                   image, trail>>

ToHex ==
    /\ output' = [op |-> "to_hex", self |-> binary, val |-> to_hex(binary)]
    /\ UNCHANGED <<binary, origin>>
    /\ UNCHANGED <<builder, inst, encoded, decoded, program, assembled, text, parser,
                   image, trail>>

\* from_bytes reads a pooled buffer or the bytes to_bytes has just returned.
NextBinary ==
    \/ BinaryNew
    \/ \E instruction \in PushWords : Push(instruction)
    \/ \E bytes \in Buffers : FromBytes(bytes)
    \/ output.op = "to_bytes" /\ FromBytes(output.val)
    \/ \E prog \in BinaryPrograms : AssembleBinary(prog)
    \/ ToBytes
    \/ ToHex

SpecBinary == InitBinary /\ [][NextBinary]_vars

-----------------------------------------------------------------------------
(* Claims checked under SpecBinary                                         *)

\* C5: every Binary the public operations produce holds exactly 128 words,
\* and to_bytes returns exactly 512 bytes.
C5_AlwaysFullSize ==
    /\ Len(binary) = MAX_INSTRUCTIONS
    /\ output.op = "to_bytes" => Len(output.val) = BINARY_BYTES

\* C6: from_bytes returns InvalidBinarySize{size: len, expected: 512} for
\* every buffer whose length is not 512, and a Binary of 128 words for every
\* buffer of 512 bytes.
C6_FromBytesSizeCheck ==
    output.op = "from_bytes" =>
        IF Len(output.arg) # 512
        THEN output.result = Err([e |-> "InvalidBinarySize",
                                  size |-> Len(output.arg), expected |-> 512])
        ELSE output.result.ok /\ Len(output.result.val) = 128

\* A buffer of 508 bytes, a multiple of 4, has been refused.
C6_Witness ==
    /\ output.op = "from_bytes"
    /\ Len(output.arg) = 508
    /\ ~output.result.ok
    /\ origin.by = "assemble"

\* C7: to_bytes of a 128-word Binary holds each word most significant byte
\* first, from_bytes gives the words back, and to_bytes of from_bytes of a
\* 512-byte buffer is the buffer.
C7_BigEndianInvertible ==
    /\ output.op = "to_bytes" /\ Len(output.self) = 128 =>
        /\ Len(output.val) = 512
        /\ \A i \in 0..127 :
            LET b == SubSeq(output.val, 4 * i + 1, 4 * i + 4)
                w == output.self[i + 1]
            IN  /\ w.hi = b[1] \div 8
                /\ w.lo = (b[1] % 8) * 16777216 + b[2] * 65536 + b[3] * 256 + b[4]
        /\ from_bytes(output.val) = Ok(output.self)
    /\ output.op = "from_bytes" /\ Len(output.arg) = 512 =>
        /\ output.result.ok
        /\ to_bytes(output.result.val) = output.arg

\* to_bytes has run on the 128 words read from the ramp buffer, whose
\* second word is 0x04050607.
C7_Witness ==
    /\ output.op = "to_bytes"
    /\ Len(output.self) = 128
    /\ output.self[2] = [hi |-> 0, lo |-> 67438087]
    /\ SubSeq(output.val, 5, 8) = <<4, 5, 6, 7>>

HexValue(c) == (CHOOSE d \in 1..16 : HexDigit[d] = c) - 1

\* The byte written as two hex digits at positions k, k + 1 of a line.
HexByte(line, k) == 16 * HexValue(line[k]) + HexValue(line[k + 1])

\* The lines of a text, each without its newline.
HexLines(t) ==
    LET ends == SelectSeq([k \in 1..Len(t) |-> k], LAMBDA k : t[k] = "\n")
    IN  [i \in 1..Len(ends) |->
            SubSeq(t, IF i = 1 THEN 1 ELSE ends[i - 1] + 1, ends[i] - 1)]

\* A line reads :LLAAAA00 <LL data bytes> CC with address 16 * i, and the
\* length, both address bytes, the data bytes and the checksum add up to 0
\* modulo 256.
HexDataRecord(line, i) ==
    /\ Len(line) >= 11
    /\ line[1] = ":"
    /\ \A k \in 2..Len(line) : \E d \in 1..16 : HexDigit[d] = line[k]
    /\ Len(line) = 11 + 2 * HexByte(line, 2)
    /\ 256 * HexByte(line, 4) + HexByte(line, 6) = 16 * i
    /\ HexByte(line, 8) = 0
    /\ Sum([k \in 1..((Len(line) - 1) \div 2) |-> HexByte(line, 2 * k)],
           (Len(line) - 1) \div 2) % 256 = 0

HexFramed(t) ==
    /\ t[1] = ":"
    /\ Len(t) >= 12
    /\ SubSeq(t, Len(t) - 11, Len(t)) =
            <<":", "0", "0", "0", "0", "0", "0", "0", "1", "F", "F", "\n">>

-----------------------------------------------------------------------------
(* Text: a String is the sequence of its characters                        *)

\* The fixed words of the language, as the lexer's #[token] attributes and
\* the formatter's string literals spell them.
Keyword ==
    [
    RDAX |-> <<"R", "D", "A", "X">>,
     RDA |-> <<"R", "D", "A">>,
     WRAX |-> <<"W", "R", "A", "X">>,
     WRA |-> <<"W", "R", "A">>,
     WRAP |-> <<"W", "R", "A", "P">>,
     RMPA |-> <<"R", "M", "P", "A">>,
     MULX |-> <<"M", "U", "L", "X">>,
     RDFX |-> <<"R", "D", "F", "X">>,
     ABSA |-> <<"A", "B", "S", "A">>,
     LDAX |-> <<"L", "D", "A", "X">>,
     RDFX2 |-> <<"R", "D", "F", "X", "2">>,
     SOF |-> <<"S", "O", "F">>,
     AND |-> <<"A", "N", "D">>,
     OR |-> <<"O", "R">>,
     XOR |-> <<"X", "O", "R">>,
     SHL |-> <<"S", "H", "L">>,
     SHR |-> <<"S", "H", "R">>,
     CLR |-> <<"C", "L", "R">>,
     NOP |-> <<"N", "O", "P">>,
     EXP |-> <<"E", "X", "P">>,
     LOG |-> <<"L", "O", "G">>,
     SKP |-> <<"S", "K", "P">>,
     WLDS |-> <<"W", "L", "D", "S">>,
     JAM |-> <<"J", "A", "M">>,
     CHO |-> <<"C", "H", "O">>,
     ACC |-> <<"A", "C", "C">>,
     ADCL |-> <<"A", "D", "C", "L">>,
     ADCR |-> <<"A", "D", "C", "R">>,
     DACL |-> <<"D", "A", "C", "L">>,
     DACR |-> <<"D", "A", "C", "R">>,
     ADDR_PTR |-> <<"A", "D", "D", "R", "_", "P", "T", "R">>,
     LR |-> <<"L", "R">>,
     SIN0 |-> <<"S", "I", "N", "0">>,
     SIN1 |-> <<"S", "I", "N", "1">>,
     RMP0 |-> <<"R", "M", "P", "0">>,
     RMP1 |-> <<"R", "M", "P", "1">>,
     SIN0_RATE |-> <<"S", "I", "N", "0", "_", "R", "A", "T", "E">>,
     SIN0_RANGE |-> <<"S", "I", "N", "0", "_", "R", "A", "N", "G", "E">>,
     SIN1_RATE |-> <<"S", "I", "N", "1", "_", "R", "A", "T", "E">>,
     SIN1_RANGE |-> <<"S", "I", "N", "1", "_", "R", "A", "N", "G", "E">>,
     RMP0_RATE |-> <<"R", "M", "P", "0", "_", "R", "A", "T", "E">>,
     RMP0_RANGE |-> <<"R", "M", "P", "0", "_", "R", "A", "N", "G", "E">>,
     RMP1_RATE |-> <<"R", "M", "P", "1", "_", "R", "A", "T", "E">>,
     RMP1_RANGE |-> <<"R", "M", "P", "1", "_", "R", "A", "N", "G", "E">>,
     GEZ |-> <<"G", "E", "Z">>,
     NEG |-> <<"N", "E", "G">>,
     ZRC |-> <<"Z", "R", "C">>,
     ZRO |-> <<"Z", "R", "O">>,
     RUN |-> <<"R", "U", "N">>,
     RDAL |-> <<"R", "D", "A", "L">>,
     RPTR2 |-> <<"R", "P", "T", "R", "2">>,
     NA |-> <<"N", "A">>,
     COMPC |-> <<"C", "O", "M", "P", "C">>,
     COMPA |-> <<"C", "O", "M", "P", "A">>,
     EQU |-> <<"E", "Q", "U">>,
     MEM |-> <<"M", "E", "M">>,
     SPINASM |-> <<"S", "P", "I", "N", "A", "S", "M">>]

Digit == <<"0", "1", "2", "3", "4", "5", "6", "7", "8", "9">>

\* Display of an unsigned integer.
RECURSIVE Decimal(_)
Decimal(n) ==
    IF n < 10 THEN <<Digit[n + 1]>>
    ELSE Decimal(n \div 10) \o <<Digit[(n % 10) + 1]>>

\* Display of a signed integer (u16, i8, u8).
DisplayInt(n) == IF n < 0 THEN <<"-">> \o Decimal(-n) ELSE Decimal(n)

\* The decimal digits of r / F32Den, 0 < r < F32Den, to the last one.
RECURSIVE FractionDigits(_)
FractionDigits(r) ==
    IF r = 0 THEN <<>>
    ELSE <<Digit[((r * 10) \div F32Den) + 1]>> \o FractionDigits((r * 10) % F32Den)

\* Display of an f32: no decimal point for a whole number, no exponent, and
\* the shortest digits that read back as the same f32.  For a multiple of
\* 1/128 below 2 in size, and for the other values the model prints, these
\* are all the digits of the value.
DisplayF32(v) ==
    CASE v.k = "nan" -> <<"N", "a", "N">>
      [] v.k = "inf" -> <<"i", "n", "f">>
      [] v.k = "ninf" -> <<"-", "i", "n", "f">>
      [] OTHER ->
            LET a == IF v.n < 0 THEN -v.n ELSE v.n
            IN  (IF v.n < 0 THEN <<"-">> ELSE <<>>)
                \o Decimal(a \div F32Den)
                \o (IF a % F32Den = 0 THEN <<>>
                    ELSE <<".">> \o FractionDigits(a % F32Den))

-----------------------------------------------------------------------------
(* Disassembler (disassembler.rs)                                          *)

format_register(reg) ==
    IF reg.r = "REG" THEN <<"R", "E", "G">> \o DisplayInt(reg.n) ELSE Keyword[reg.r]

format_skip_condition(cond) == Keyword[cond]

format_lfo(lfo) == Keyword[lfo]

format_cho_mode(mode) == Keyword[mode]

\* parts.join(", ")
RECURSIVE Join(_, _)
Join(parts, k) ==
    IF k = 0 THEN <<>>
    ELSE IF k = 1 THEN parts[1]
    ELSE Join(parts, k - 1) \o <<",", " ">> \o parts[k]

FormatRegCoeff(i) ==
    Keyword[i.op] \o <<" ">> \o format_register(i.reg) \o <<",", " ">> \o DisplayF32(i.coeff)

FormatAddrCoeff(i) ==
    Keyword[i.op] \o <<" ">> \o DisplayInt(i.addr) \o <<",", " ">> \o DisplayF32(i.coeff)

FormatCoeffOffset(i) ==
    Keyword[i.op] \o <<" ">> \o DisplayF32(i.coeff) \o <<",", " ">> \o DisplayF32(i.offset)

\* The flag names are pushed one by one, the address last.
format_cho_flags_listed(i) ==
    <<format_cho_mode(i.mode), format_lfo(i.lfo)>>
    \o (IF i.flags.rptr2 THEN <<<<"R", "P", "T", "R", "2">>>> ELSE <<>>)
    \o (IF i.flags.na THEN <<<<"N", "A">>>> ELSE <<>>)
    \o (IF i.flags.compc THEN <<<<"C", "O", "M", "P", "C">>>> ELSE <<>>)
    \o (IF i.flags.compa THEN <<<<"C", "O", "M", "P", "A">>>> ELSE <<>>)
    \o (IF i.flags.rptr2_select THEN <<<<"R", "P", "T", "R", "2", "_", "S", "E", "L">>>> ELSE <<>>)
    \o <<DisplayInt(i.addr)>>

format_instruction(i) ==
    CASE i.op \in {"RDAX", "WRAX", "RDFX", "RDFX2"} -> FormatRegCoeff(i)
      [] i.op \in {"RDA", "WRA", "WRAP"} -> FormatAddrCoeff(i)
      [] i.op = "RMPA" -> <<"R", "M", "P", "A", " ">> \o DisplayF32(i.coeff)
      [] i.op \in {"MULX", "LDAX"} -> Keyword[i.op] \o <<" ">> \o format_register(i.reg)
      [] i.op \in {"ABSA", "SHL", "SHR", "CLR", "NOP"} -> Keyword[i.op]
      [] i.op \in {"SOF", "EXP", "LOG"} -> FormatCoeffOffset(i)
      [] i.op \in {"AND", "OR", "XOR"} ->
            Keyword[i.op] \o <<" ", "0", "x">> \o UpperHexPadded(i.mask, 6)
      [] i.op = "SKP" ->
            <<"S", "K", "P", " ">> \o format_skip_condition(i.condition) \o <<",", " ">>
            \o DisplayInt(i.offset)
      [] i.op = "WLDS" ->
            <<"W", "L", "D", "S", " ">> \o format_lfo(i.lfo) \o <<",", " ">>
            \o DisplayInt(i.freq) \o <<",", " ">>
            \o DisplayInt(i.amplitude)
      [] i.op = "JAM" -> <<"J", "A", "M", " ">> \o format_lfo(i.lfo)
      [] i.op = "CHO" ->
            LET parts == format_cho_flags_listed(i)
            IN  <<"C", "H", "O", " ">> \o Join(parts, Len(parts))

format_statement(statement) ==
    CASE statement.kind = "Instruction" ->
            format_instruction(statement.instruction) \o <<"\n">>
      [] statement.kind = "Label" -> statement.label \o <<":", "\n">>
      [] statement.kind = "LabeledInstruction" ->
            statement.label \o <<":", " ">> \o format_instruction(statement.instruction)
            \o <<"\n">>

format_program(prog) ==
    Concat([k \in 1..Len(prog.statements) |-> format_statement(prog.statements[k])],
           Len(prog.statements))

Disassembler_new == [strip_nops |-> TRUE]

with_strip_nops(self, strip) == [self EXCEPT !.strip_nops = strip]

\* The break test with the look at the remaining words left out.
BreaksAt_first_nop(strip_nops, words, k, d) ==
    strip_nops /\ d.val = [op |-> "NOP"]

\* The test the loop makes on the decoded word k (from 1) before it emits
\* it: strip_nops && matches!(inst, NOP) && words[idx..].all(|w| w == 0).
BreaksAt(strip_nops, words, k, d) ==
    /\ strip_nops
    /\ d.val = [op |-> "NOP"]
    /\ \A j \in k..Len(words) : words[j] = NOP_WORD

\* One pass of the loop body on word k (from 1), whose decoding is d: a
\* failure ends the call with its error, the break leaves the loop (brk),
\* anything else is added to the Program.
DecodeOne(strip_nops, words, k, prog, d) ==
    IF ~d.ok THEN d
    ELSE IF BreaksAt(strip_nops, words, k, d)
    THEN [ok |-> TRUE, val |-> prog, brk |-> TRUE]
    ELSE [ok |-> TRUE, val |-> add_statement(prog, Instruction(d.val)), brk |-> FALSE]

RECURSIVE DecodeEach(_, _, _, _, _)
RECURSIVE DecodeRest(_, _, _, _, _)

\* The loop of disassemble over words[lo..=hi], walked left to right in
\* halves, which keeps the nesting shallow.
DecodeEach(strip_nops, words, lo, hi, prog) ==
    IF lo > hi THEN [ok |-> TRUE, val |-> prog, brk |-> FALSE]
    ELSE IF lo = hi
    THEN DecodeOne(strip_nops, words, lo, prog, decode_instruction(words[lo]))
    ELSE DecodeRest(strip_nops, words, (lo + hi) \div 2, hi,
                    DecodeEach(strip_nops, words, lo, (lo + hi) \div 2, prog))

\* The loop after words[..=mid] gave left: it goes on over words[mid+1..=hi]
\* unless it has ended with an error or been left by the break.
DecodeRest(strip_nops, words, mid, hi, left) ==
    IF ~left.ok THEN left
    ELSE IF left.brk THEN left
    ELSE DecodeEach(strip_nops, words, mid + 1, hi, left.val)

\* What the call returns once the loop is over: the error, or Ok(program).
LoopResult(walked) == IF ~walked.ok THEN walked ELSE Ok(walked.val)

disassemble(strip_nops, bin) ==
    LoopResult(DecodeEach(strip_nops, bin, 1, Len(bin), Program_new))

disassemble_to_source(strip_nops, bin) ==
    LET prog == disassemble(strip_nops, bin)
    IN  IF ~prog.ok THEN prog ELSE Ok(format_program(prog.val))

-----------------------------------------------------------------------------
(* Lexer (lexer.rs)                                                        *)

UpperLetters ==
    <<"A", "B", "C", "D", "E", "F", "G", "H", "I", "J", "K", "L", "M", "N",
      "O", "P", "Q", "R", "S", "T", "U", "V", "W", "X", "Y", "Z">>

LowerLetters ==
    <<"a", "b", "c", "d", "e", "f", "g", "h", "i", "j", "k", "l", "m", "n",
      "o", "p", "q", "r", "s", "t", "u", "v", "w", "x", "y", "z">>

Range(s) == {s[k] : k \in DOMAIN s}

\* [a-zA-Z_] and [a-zA-Z0-9_]
IdentStart == Range(UpperLetters) \cup Range(LowerLetters) \cup {"_"}

IdentChar == IdentStart \cup Range(Digit)

\* [0-9a-fA-F]
HexChar == Range(Digit) \cup {"A", "B", "C", "D", "E", "F", "a", "b", "c", "d", "e", "f"}

\* [ \t\r\n\f]; the model's texts hold no \r and no \f.
Whitespace == {" ", "\t", "\n"}

\* ignore(ascii_case)
ToUpper(c) ==
    IF c \in Range(LowerLetters)
    THEN UpperLetters[CHOOSE k \in 1..26 : LowerLetters[k] = c]
    ELSE c

\* The last index of the longest run of characters of a class that starts
\* at p; p - 1 when text[p] is not of the class.
RunEnd(source, p, class) ==
    CHOOSE q \in (p - 1)..Len(source) :
        /\ \A j \in p..q : source[j] \in class
        /\ q < Len(source) => source[q + 1] \notin class

DigitValue(c) == (CHOOSE d \in 1..10 : Digit[d] = c) - 1

HexDigitValue(c) == (CHOOSE d \in 1..16 : HexDigit[d] = ToUpper(c)) - 1

\* str::parse::<i64> and i64::from_str_radix on a string of digits.
RECURSIVE from_str_radix(_, _, _)
from_str_radix(digits, k, radix) ==
    IF k = 0 THEN 0
    ELSE from_str_radix(digits, k - 1, radix) * radix + HexDigitValue(digits[k])

\* The value of the fraction digits from the k-th on, in units of
\* 1 / F32Den: exact for every decimal that an f32 of that grid holds.
RECURSIVE FractionValue(_, _)
FractionValue(digits, k) ==
    IF k > Len(digits) THEN 0
    ELSE (DigitValue(digits[k]) * F32Den + FractionValue(digits, k + 1)) \div 10

\* #[token] spellings that a whole word may be, and the REG and POT regexes.
IsReg(word) ==
    /\ Len(word) \in {4, 5}
    /\ SubSeq(word, 1, 3) = <<"R", "E", "G">>
    /\ \A k \in 4..Len(word) : word[k] \in Range(Digit)
    /\ Len(word) = 5 =>
            \/ word[4] \in {"1", "2"}
            \/ word[4] = "3" /\ word[5] \in {"0", "1"}

IsPot(word) ==
    /\ Len(word) = 4
    /\ SubSeq(word, 1, 3) = <<"P", "O", "T">>
    /\ word[4] \in {"0", "1", "2"}

\* The token for a maximal run of identifier characters: a keyword in any
\* case, a REG or POT, or else an Identifier holding the run as written.
WordToken(word) ==
    LET upper == [k \in 1..Len(word) |-> ToUpper(word[k])]
    IN  IF \E name \in DOMAIN Keyword : Keyword[name] = upper
        THEN Ok([t |-> CHOOSE name \in DOMAIN Keyword : Keyword[name] = upper])
        ELSE IF IsReg(upper)
        THEN Ok([t |-> "REG", n |-> from_str_radix(SubSeq(upper, 4, Len(upper)),
                                                   Len(upper) - 3, 10)])
        ELSE IF IsPot(upper)
        THEN Ok([t |-> "POT", n |-> DigitValue(upper[4])])
        ELSE Ok([t |-> "Identifier", s |-> word])


\* A token and the number of characters it takes.
Lexeme(tok, len) == [tok |-> tok, len |-> len]

\* Float: -?[0-9]+\.[0-9]+ with parse_float; the exponent forms are left
\* out, no text of the model holding a digit followed by e or E.
FloatLexeme(source, p, neg, d0, q) ==
    LET f == RunEnd(source, q + 2, Range(Digit))
        whole == from_str_radix(SubSeq(source, d0, q), q - d0 + 1, 10)
        n == whole * F32Den + FractionValue(SubSeq(source, q + 2, f), 1)
    IN  Lexeme(Ok([t |-> "Float", v |-> Fin(IF neg THEN -n ELSE n)]), f - p + 1)

\* Integer: -?[0-9]+ with parse_int.
IntegerLexeme(source, p, neg, d0, q) ==
    LET i == from_str_radix(SubSeq(source, d0, q), q - d0 + 1, 10)
    IN  Lexeme(Ok([t |-> "Integer", i |-> IF neg THEN -i ELSE i]), q - p + 1)

\* Integer: 0x[0-9a-fA-F]+ with parse_hex, \$[0-9a-fA-F]+ with
\* parse_hex_dollar, %[01]+ with parse_binary; skip is the prefix length.
RadixLexeme(source, p, skip, class, radix) ==
    LET h == RunEnd(source, p + skip, class)
    IN  IF h < p + skip THEN Lexeme(Err("()"), 1)
        ELSE Lexeme(Ok([t |-> "Integer",
                        i |-> from_str_radix(SubSeq(source, p + skip, h),
                                             h - p - skip + 1, radix)]),
                    h - p + 1)

\* The longest match among the numeric patterns at p, where source[p] is a
\* digit or a minus sign.
NumberLexeme(source, p) ==
    LET neg == source[p] = "-"
        d0 == IF neg THEN p + 1 ELSE p
        q == RunEnd(source, d0, Range(Digit))
    IN  IF q < d0 THEN Lexeme(Err("()"), 1)
        ELSE IF /\ q = p /\ source[p] = "0" /\ p + 2 <= Len(source)
                /\ source[p + 1] = "x" /\ source[p + 2] \in HexChar
        THEN RadixLexeme(source, p, 2, HexChar, 16)
        ELSE IF /\ q + 2 <= Len(source) /\ source[q + 1] = "."
                /\ source[q + 2] \in Range(Digit)
        THEN FloatLexeme(source, p, neg, d0, q)
        ELSE IntegerLexeme(source, p, neg, d0, q)

\* The token that starts at p; what matches no pattern is an error of one
\* character.
NextLexeme(source, p) ==
    LET c == source[p]
    IN  CASE c \in IdentStart ->
                LET q == RunEnd(source, p, IdentChar)
                IN  Lexeme(WordToken(SubSeq(source, p, q)), q - p + 1)
          [] c \in Range(Digit) \cup {"-"} -> NumberLexeme(source, p)
          [] c = "$" -> RadixLexeme(source, p, 1, HexChar, 16)
          [] c = "%" -> RadixLexeme(source, p, 1, {"0", "1"}, 2)
          [] c = "," -> Lexeme(Ok([t |-> "Comma"]), 1)
          [] c = ":" -> Lexeme(Ok([t |-> "Colon"]), 1)
          [] c = "=" -> Lexeme(Ok([t |-> "Equals"]), 1)
          [] c = "|" -> Lexeme(Ok([t |-> "Pipe"]), 1)
          [] c = "#" -> Lexeme(Ok([t |-> "Hash"]), 1)
          [] OTHER -> Lexeme(Err("()"), 1)

\* #[logos(skip ...)]: the index of the first character at or after p that
\* is neither whitespace nor part of a comment; Len + 1 when there is none.
RECURSIVE SkipTrivia(_, _)
SkipTrivia(source, p) ==
    IF p > Len(source) THEN p
    ELSE IF source[p] \in Whitespace
    THEN SkipTrivia(source, RunEnd(source, p, Whitespace) + 1)
    ELSE IF source[p] = ";"
    THEN SkipTrivia(source,
                    1 + CHOOSE q \in p..Len(source) :
                            /\ \A j \in (p + 1)..q : source[j] # "\n"
                            /\ q < Len(source) => source[q + 1] = "\n")
    ELSE p

\* Lexer::new(source).collect(): the tokens with their spans (byte offsets
\* from 0, end exclusive).
RECURSIVE Scan(_, _, _)
Scan(source, from, tokens) ==
    LET p == SkipTrivia(source, from)
    IN  IF p > Len(source) THEN tokens
        ELSE LET lexeme == NextLexeme(source, p)
                 token == [tok |-> lexeme.tok,
                           span |-> [start |-> p - 1, end |-> p - 1 + lexeme.len]]
             IN  Scan(source, p + lexeme.len, Append(tokens, token))

Lexer_collect(source) == Scan(source, 1, <<>>)

-----------------------------------------------------------------------------
(* Parser (parser.rs)                                                      *)

\* What a parsing method returns, with the position it leaves the Parser at.
POk(v, pos) == [ok |-> TRUE, val |-> v, pos |-> pos]

PErr(e, pos) == [ok |-> FALSE, err |-> e, pos |-> pos]

\* The ? operator: the rest runs on an Ok, an Err is returned as it is.
Try(r, rest(_)) == IF r.ok THEN rest(r) ELSE r

UnexpectedEof == [e |-> "UnexpectedEof"]

\* `found` is the Debug text of the token, held here as the token itself.
UnexpectedToken(expected, found, span) ==
    [e |-> "UnexpectedToken", expected |-> expected, found |-> found, span |-> span]

ExpectedRegister(span) == [e |-> "ExpectedRegister", span |-> span]

ExpectedNumber(span) == [e |-> "ExpectedNumber", span |-> span]

InvalidToken(span) == [e |-> "InvalidToken", span |-> span]

\* i64 as f64
F64OfInt(i) == [k |-> "int", i |-> i]

\* f64 as f32: exact for the f32 a Float token holds; an integer becomes the
\* f32 of that value.
as_f32(x) == IF x.k = "int" THEN Fin(x.i * F32Den) ELSE x

\* f64 toward zero.
Trunc(x) ==
    CASE x.k = "int" -> x.i
      [] x.k = "fin" /\ x.n >= 0 -> x.n \div F32Den
      [] x.k = "fin" /\ x.n < 0 -> -((-x.n) \div F32Den)

Clamp(i, lo, hi) == IF i < lo THEN lo ELSE IF i > hi THEN hi ELSE i

\* f64 as u16, as i8: toward zero, then saturating.
as_u16(x) == Clamp(Trunc(x), 0, 65535)

as_i8(x) == Clamp(Trunc(x), -128, 127)

\* f64 as u32; the integers of the model stay below 2^31.
as_u32(x) == IF Trunc(x) < 0 THEN 0 ELSE Trunc(x)

is_at_end(tokens, pos) == pos >= Len(tokens)

\* tokens.get(pos); None is held as an error entry no token equals.
peek(tokens, pos) ==
    IF pos < Len(tokens) THEN tokens[pos + 1]
    ELSE [tok |-> Err("None"), span |-> [start |-> 0, end |-> 0]]

peek_next(tokens, pos) == peek(tokens, pos + 1)

\* advance_checked that reports an error token without its span.
advance_checked_no_span(tokens, pos) ==
    IF is_at_end(tokens, pos) THEN PErr(UnexpectedEof, pos)
    ELSE LET entry == tokens[pos + 1]
         IN  IF entry.tok.ok
             THEN POk([token |-> entry.tok.val, span |-> entry.span], pos + 1)
             ELSE PErr(InvalidToken([start |-> 0, end |-> 0]), pos + 1)

advance_checked(tokens, pos) ==
    IF is_at_end(tokens, pos) THEN PErr(UnexpectedEof, pos)
    ELSE LET entry == tokens[pos + 1]
         IN  IF entry.tok.ok
             THEN POk([token |-> entry.tok.val, span |-> entry.span], pos + 1)
             ELSE PErr(InvalidToken(entry.span), pos + 1)

\* std::mem::discriminant compares the variants, not what they hold.
expect(tokens, pos, expected) ==
    Try(advance_checked(tokens, pos), LAMBDA a :
        IF a.val.token.t = expected THEN POk("()", a.pos)
        ELSE PErr(UnexpectedToken(expected, a.val.token, a.val.span), a.pos))

RegisterTokens ==
    {"ACC", "ADCL", "ADCR", "DACL", "DACR", "ADDR_PTR", "LR", "SIN0_RATE",
     "SIN0_RANGE", "SIN1_RATE", "SIN1_RANGE", "RMP0_RATE", "RMP0_RANGE",
     "RMP1_RATE", "RMP1_RANGE"}

parse_register(tokens, pos) ==
    Try(advance_checked(tokens, pos), LAMBDA a :
        IF a.val.token.t \in RegisterTokens THEN POk(NamedReg(a.val.token.t), a.pos)
        ELSE IF a.val.token.t = "REG" THEN POk(REG(a.val.token.n), a.pos)
        ELSE PErr(ExpectedRegister(a.val.span), a.pos))

parse_number(tokens, pos) ==
    Try(advance_checked(tokens, pos), LAMBDA a :
        IF a.val.token.t = "Float" THEN POk(a.val.token.v, a.pos)
        ELSE IF a.val.token.t = "Integer" THEN POk(F64OfInt(a.val.token.i), a.pos)
        ELSE PErr(ExpectedNumber(a.val.span), a.pos))

\* parse_lfo, parse_skip_condition and parse_cho_mode: one token out of a
\* fixed set, or UnexpectedToken naming what was expected.
ParseOneOf(tokens, pos, accepted, expected) ==
    Try(advance_checked(tokens, pos), LAMBDA a :
        IF a.val.token.t \in accepted THEN POk(a.val.token.t, a.pos)
        ELSE PErr(UnexpectedToken(expected, a.val.token, a.val.span), a.pos))

parse_lfo(tokens, pos) ==
    ParseOneOf(tokens, pos, {"SIN0", "SIN1", "RMP0", "RMP1"},
               "LFO (sin0, sin1, rmp0, rmp1)")

parse_skip_condition(tokens, pos) ==
    ParseOneOf(tokens, pos, {"GEZ", "NEG", "ZRC", "ZRO", "RUN"},
               "skip condition (gez, neg, zrc, zro, run)")

parse_cho_mode(tokens, pos) ==
    ParseOneOf(tokens, pos, {"RDA", "SOF", "RDAL"}, "CHO mode (rda, sof, rdal)")

\* parse_cho_flags reading the flag NA from its token.
parse_cho_flags_reading(tokens, pos) ==
    Try(advance_checked(tokens, pos), LAMBDA a :
        POk([NoFlags EXCEPT !.na = (a.val.token.t = "NA")], a.pos))

\* One token, whatever it is, is consumed; the flags returned are all false.
parse_cho_flags(tokens, pos) ==
    Try(advance_checked(tokens, pos), LAMBDA a : POk(NoFlags, a.pos))


\* reg , number
ParseRegCoeff(op, tokens, pos) ==
    Try(parse_register(tokens, pos), LAMBDA reg :
    Try(expect(tokens, reg.pos, "Comma"), LAMBDA comma :
    Try(parse_number(tokens, comma.pos), LAMBDA coeff :
        POk([op |-> op, reg |-> reg.val, coeff |-> as_f32(coeff.val)], coeff.pos))))

\* number as u16 , number
ParseAddrCoeff(op, tokens, pos) ==
    Try(parse_number(tokens, pos), LAMBDA addr :
    Try(expect(tokens, addr.pos, "Comma"), LAMBDA comma :
    Try(parse_number(tokens, comma.pos), LAMBDA coeff :
        POk([op |-> op, addr |-> as_u16(addr.val), coeff |-> as_f32(coeff.val)],
            coeff.pos))))

\* number , number
ParseCoeffOffset(op, tokens, pos) ==
    Try(parse_number(tokens, pos), LAMBDA coeff :
    Try(expect(tokens, coeff.pos, "Comma"), LAMBDA comma :
    Try(parse_number(tokens, comma.pos), LAMBDA offset :
        POk([op |-> op, coeff |-> as_f32(coeff.val), offset |-> as_f32(offset.val)],
            offset.pos))))

ParseSkp(tokens, pos) ==
    Try(parse_skip_condition(tokens, pos), LAMBDA condition :
    Try(expect(tokens, condition.pos, "Comma"), LAMBDA comma :
    Try(parse_number(tokens, comma.pos), LAMBDA offset :
        POk([op |-> "SKP", condition |-> condition.val, offset |-> as_i8(offset.val)],
            offset.pos))))

ParseWlds(tokens, pos) ==
    Try(parse_lfo(tokens, pos), LAMBDA lfo :
    Try(expect(tokens, lfo.pos, "Comma"), LAMBDA c1 :
    Try(parse_number(tokens, c1.pos), LAMBDA freq :
    Try(expect(tokens, freq.pos, "Comma"), LAMBDA c2 :
    Try(parse_number(tokens, c2.pos), LAMBDA amplitude :
        POk([op |-> "WLDS", lfo |-> lfo.val, freq |-> as_u16(freq.val),
             amplitude |-> as_u16(amplitude.val)], amplitude.pos))))))

\* mode , lfo , flags , number
ParseCho(tokens, pos) ==
    Try(parse_cho_mode(tokens, pos), LAMBDA mode :
    Try(expect(tokens, mode.pos, "Comma"), LAMBDA c1 :
    Try(parse_lfo(tokens, c1.pos), LAMBDA lfo :
    Try(expect(tokens, lfo.pos, "Comma"), LAMBDA c2 :
    Try(parse_cho_flags(tokens, c2.pos), LAMBDA flags :
    Try(expect(tokens, flags.pos, "Comma"), LAMBDA c3 :
    Try(parse_number(tokens, c3.pos), LAMBDA addr :
        POk([op |-> "CHO", mode |-> mode.val, lfo |-> lfo.val, flags |-> flags.val,
             addr |-> as_u16(addr.val)], addr.pos))))))))

InstructionTokens ==
    {"RDAX", "RDA", "WRAX", "WRA", "WRAP", "RMPA", "MULX", "RDFX", "RDFX2", "LDAX",
     "SOF", "AND", "OR", "XOR", "EXP", "LOG", "SKP", "WLDS", "JAM", "CHO", "ABSA",
     "SHL", "SHR", "CLR", "NOP"}

parse_instruction(tokens, pos) ==
    Try(advance_checked(tokens, pos), LAMBDA a :
        LET op == a.val.token.t
        IN  CASE op \in {"RDAX", "WRAX", "RDFX", "RDFX2"} ->
                    ParseRegCoeff(op, tokens, a.pos)
              [] op \in {"RDA", "WRA", "WRAP"} -> ParseAddrCoeff(op, tokens, a.pos)
              [] op = "RMPA" ->
                    Try(parse_number(tokens, a.pos), LAMBDA coeff :
                        POk([op |-> op, coeff |-> as_f32(coeff.val)], coeff.pos))
              [] op \in {"MULX", "LDAX"} ->
                    Try(parse_register(tokens, a.pos), LAMBDA reg :
                        POk([op |-> op, reg |-> reg.val], reg.pos))
              [] op \in {"SOF", "EXP", "LOG"} -> ParseCoeffOffset(op, tokens, a.pos)
              [] op \in {"AND", "OR", "XOR"} ->
                    Try(parse_number(tokens, a.pos), LAMBDA mask :
                        POk([op |-> op, mask |-> as_u32(mask.val)], mask.pos))
              [] op = "SKP" -> ParseSkp(tokens, a.pos)
              [] op = "WLDS" -> ParseWlds(tokens, a.pos)
              [] op = "JAM" ->
                    Try(parse_lfo(tokens, a.pos), LAMBDA lfo :
                        POk([op |-> op, lfo |-> lfo.val], lfo.pos))
              [] op = "CHO" -> ParseCho(tokens, a.pos)
              [] op \in {"ABSA", "SHL", "SHR", "CLR", "NOP"} -> POk([op |-> op], a.pos)
              [] OTHER ->
                    PErr(UnexpectedToken("instruction", a.val.token, a.val.span), a.pos))

parse_identifier(tokens, pos) ==
    Try(advance_checked(tokens, pos), LAMBDA a :
        IF a.val.token.t = "Identifier" THEN POk(a.val.token.s, a.pos)
        ELSE PErr(UnexpectedToken("identifier", a.val.token, a.val.span), a.pos))

\* The error of parse_value carries the span 0..0, not the token's.
parse_value(tokens, pos) ==
    Try(advance_checked(tokens, pos), LAMBDA a :
        CASE a.val.token.t = "Float" -> POk([kind |-> "Float", f |-> a.val.token.v], a.pos)
          [] a.val.token.t = "Integer" ->
                POk([kind |-> "Integer", i |-> a.val.token.i], a.pos)
          [] a.val.token.t = "Identifier" ->
                POk([kind |-> "Identifier", s |-> a.val.token.s], a.pos)
          [] OTHER -> PErr(ExpectedNumber([start |-> 0, end |-> 0]), a.pos))

parse_directive(tokens, pos) ==
    Try(advance_checked(tokens, pos), LAMBDA a :
        CASE a.val.token.t = "EQU" ->
                Try(parse_identifier(tokens, a.pos), LAMBDA name :
                Try(expect(tokens, name.pos, "Comma"), LAMBDA comma :
                Try(parse_value(tokens, comma.pos), LAMBDA value :
                    POk([kind |-> "Equate", name |-> name.val, value |-> value.val],
                        value.pos))))
          [] a.val.token.t = "MEM" ->
                Try(parse_identifier(tokens, a.pos), LAMBDA name :
                Try(parse_number(tokens, name.pos), LAMBDA size :
                    POk([kind |-> "MemoryAllocation", name |-> name.val,
                         size |-> as_u16(size.val)], size.pos)))
          [] a.val.token.t = "SPINASM" ->
                Try(parse_identifier(tokens, a.pos), LAMBDA version :
                    POk([kind |-> "SpinAsm", version |-> version.val], version.pos))
          [] OTHER ->
                PErr(UnexpectedToken("directive (equ, mem, spinasm)", a.val.token,
                                     a.val.span), a.pos))

HasToken(entry, names) == entry.tok.ok /\ entry.tok.val.t \in names

check_directive(tokens, pos) == HasToken(peek(tokens, pos), {"EQU", "MEM", "SPINASM"})

is_instruction(tokens, pos) == HasToken(peek(tokens, pos), InstructionTokens)

\* parse_statement that returns a bare label without consuming its tokens.
parse_statement_label_stays(tokens, pos) ==
    IF /\ HasToken(peek(tokens, pos), {"Identifier"})
       /\ HasToken(peek_next(tokens, pos), {"Colon"})
    THEN LET label == peek(tokens, pos).tok.val.s
         IN  IF ~is_at_end(tokens, pos + 2) /\ is_instruction(tokens, pos + 2)
             THEN Try(parse_instruction(tokens, pos + 2), LAMBDA instruction :
                      POk(LabeledInstruction(label, instruction.val), instruction.pos))
             ELSE POk(Label(label), pos)
    ELSE Try(parse_instruction(tokens, pos), LAMBDA instruction :
             POk(Instruction(instruction.val), instruction.pos))

parse_statement(tokens, pos) ==
    IF /\ HasToken(peek(tokens, pos), {"Identifier"})
       /\ HasToken(peek_next(tokens, pos), {"Colon"})
    THEN LET label == peek(tokens, pos).tok.val.s
         IN  IF ~is_at_end(tokens, pos + 2) /\ is_instruction(tokens, pos + 2)
             THEN Try(parse_instruction(tokens, pos + 2), LAMBDA instruction :
                      POk(LabeledInstruction(label, instruction.val), instruction.pos))
             ELSE POk(Label(label), pos + 2)
    ELSE Try(parse_instruction(tokens, pos), LAMBDA instruction :
             POk(Instruction(instruction.val), instruction.pos))

\* Parser::new
Parser_new(source) == [tokens |-> Lexer_collect(source), pos |-> 0]

\* The loop of parse, from position pos with the Program built so far; the
\* position returned is the one the Parser is left at.
RECURSIVE ParseLoop(_, _, _)
ParseLoop(tokens, pos, prog) ==
    IF is_at_end(tokens, pos) THEN POk(prog, pos)
    ELSE IF check_directive(tokens, pos)
    THEN LET d == parse_directive(tokens, pos)
         IN  IF ~d.ok THEN d
             ELSE ParseLoop(tokens, d.pos,
                            [prog EXCEPT !.directives = Append(@, d.val)])
    ELSE LET stmt == parse_statement(tokens, pos)
         IN  IF ~stmt.ok THEN stmt
             ELSE ParseLoop(tokens, stmt.pos, add_statement(prog, stmt.val))

parse(p) == ParseLoop(p.tokens, p.pos, Program_new)

\* The Result of a parsing method, without the position.
Returned(r) == IF r.ok THEN Ok(r.val) ELSE Err(r.err)

-----------------------------------------------------------------------------
(* SpecRoundTrip: source text or a Binary taken through Parser::new,       *)
(* parse, assemble and disassemble_to_source, one call after the other     *)

\* Lines of source text in one program.
MaxLines == 2

\* Words of a Binary before its NOP padding.
MaxImageWords == 2

\* Calls of disassemble_to_source in one run.
MaxPasses == 2

\* Lines as a user writes them: keywords in either case, a comment, hex
\* with $, a negative skip offset, a CHO with a flag, a NOP, a label, a
\* coefficient the encoder refuses and a register the lexer does not know.
SourceLines ==
    {<<"R", "D", "A", "X", " ", "A", "D", "C", "L", ",", " ", "0", ".", "5", "\n">>,
     <<"w", "r", "a", "x", " ", "d", "a", "c", "l", ",", " ", "0", "\n">>,
     <<"S", "O", "F", " ", "1", ".", "5", ",", " ", "-", "0", ".", "2", "5",
       " ", ";", " ", "s", "c", "a", "l", "e", "\n">>,
     <<"R", "D", "A", " ", "1", "0", "0", ",", " ", "0", ".", "0", "0", "7",
       "8", "1", "2", "5", "\n">>,
     <<"A", "N", "D", " ", "$", "0", "0", "F", "F", "F", "F", "\n">>,
     <<"S", "K", "P", " ", "N", "E", "G", ",", " ", "-", "1", "\n">>,
     <<"W", "L", "D", "S", " ", "S", "I", "N", "0", ",", " ", "1", "0", "0",
       ",", " ", "2", "0", "0", "\n">>,
     <<"M", "U", "L", "X", " ", "R", "E", "G", "5", "\n">>,
     <<"C", "H", "O", " ", "R", "D", "A", ",", " ", "S", "I", "N", "0", ",",
       " ", "N", "A", ",", " ", "1", "0", "0", "\n">>,
     <<"C", "L", "R", "\n">>,
     <<"N", "O", "P", "\n">>,
     <<"t", "o", "p", ":", " ", "A", "B", "S", "A", "\n">>,
     <<"R", "D", "F", "X", " ", "A", "D", "C", "R", ",", " ", "2", ".", "5", "\n">>,
     <<"L", "D", "A", "X", " ", "R", "E", "G", "3", "2", "\n">>,
     <<"M", "U", "L", "X", " ", "P", "O", "T", "0", "\n">>}

Sources ==
    {Concat(lines, Len(lines)) :
        lines \in UNION {[1..n -> SourceLines] : n \in 1..MaxLines}}

\* One instruction of every operand shape, and CHO with no flag, one flag,
\* two flags, the flag the lexer has no token for, and all five.
ImageInstructions ==
    {[op |-> "RDAX", reg |-> NamedReg("ADCR"), coeff |-> Fin(-F32Den \div 2)],
     [op |-> "WRA", addr |-> 1000, coeff |-> Fin(F32Den \div 128)],
     [op |-> "RMPA", coeff |-> Fin(F32Den \div 4)],
     [op |-> "LDAX", reg |-> REG(31)],
     [op |-> "CLR"],
     [op |-> "EXP", coeff |-> Fin(F32Den \div 2), offset |-> Fin(-F32Den \div 4)],
     [op |-> "XOR", mask |-> 16777215],
     [op |-> "SKP", condition |-> "ZRC", offset |-> 31],
     [op |-> "WLDS", lfo |-> "SIN1", freq |-> 511, amplitude |-> 300],
     [op |-> "JAM", lfo |-> "RMP0"]}
    \cup {[op |-> "CHO", mode |-> "RDAL", lfo |-> "SIN0", flags |-> f, addr |-> 100] :
            f \in {NoFlags,
                   [NoFlags EXCEPT !.na = TRUE],
                   [NoFlags EXCEPT !.na = TRUE, !.compc = TRUE],
                   [NoFlags EXCEPT !.rptr2_select = TRUE],
                   [rptr2 |-> TRUE, na |-> TRUE, compc |-> TRUE, compa |-> TRUE,
                    rptr2_select |-> TRUE]}}

\* The encodings of those, and two words no instruction encodes to:
\* 0x0CE20000 (RDA of address 40000, above the delay memory) and
\* 0xF8000005 (no such opcode).
ImageWords ==
    {encode_instruction(i).val : i \in ImageInstructions}
    \cup {[hi |-> 1, lo |-> 40000 * 2048], [hi |-> 31, lo |-> 5]}

Images ==
    {PadWithNops(words) :
        words \in UNION {[1..n -> ImageWords] : n \in 1..MaxImageWords}}

Last(s) == s[Len(s)]

InitRoundTrip ==
    /\ \/ /\ text \in Sources
          /\ image = <<>>
          /\ trail = <<[op |-> "source"]>>
       \/ /\ text = <<>>
          /\ image \in Images
          /\ trail = <<[op |-> "binary"]>>
    /\ parser = NoCall
    /\ IdleBuilder /\ IdleEncode /\ IdleAssemble /\ IdleBinary

NewParser ==
    /\ \/ Last(trail).op = "source"
       \/ Last(trail).op = "disassemble" /\ Last(trail).source.ok
    /\ parser' = Parser_new(text)
    /\ trail' = Append(trail, [op |-> "new"])
    /\ UNCHANGED <<builder, inst, encoded, decoded, program, assembled, binary, origin,
                   output, text, image>>

Parse ==
    /\ Last(trail).op = "new"
    /\ LET r == parse(parser)
       IN  /\ parser' = [parser EXCEPT !.pos = r.pos]
           /\ trail' = Append(trail, [op |-> "parse", result |-> Returned(r)])
    /\ UNCHANGED <<builder, inst, encoded, decoded, program, assembled, binary, origin,
                   output, text, image>>

AssembleParsed ==
    /\ Last(trail).op = "parse" /\ Last(trail).result.ok
    /\ LET r == assemble(FALSE, Last(trail).result.val)
       IN  /\ image' = IF r.ok THEN r.val ELSE image
           /\ trail' = Append(trail, [op |-> "assemble", result |-> r])
    /\ UNCHANGED <<builder, inst, encoded, decoded, program, assembled, binary, origin,
                   output, text, parser>>

Disassemble ==
    /\ \/ Last(trail).op = "binary"
       \/ Last(trail).op = "assemble" /\ Last(trail).result.ok
    /\ Len(SelectSeq(trail, LAMBDA ev : ev.op = "disassemble")) < MaxPasses
    /\ LET source == disassemble_to_source(TRUE, image)
       IN  /\ text' = IF source.ok THEN source.val ELSE text
           /\ trail' = Append(trail, [op |-> "disassemble",
                                      program |-> disassemble(TRUE, image),
                                      source |-> source])
    /\ UNCHANGED <<builder, inst, encoded, decoded, program, assembled, binary, origin,
                   output, parser, image>>

NextRoundTrip == NewParser \/ Parse \/ AssembleParsed \/ Disassemble

SpecRoundTrip == InitRoundTrip /\ [][NextRoundTrip]_vars

-----------------------------------------------------------------------------
(* Claims checked under SpecRoundTrip                                      *)

LabelFree(prog) ==
    \A k \in 1..Len(prog.statements) : prog.statements[k].kind = "Instruction"

\* No NOP with another instruction after it.
NoInteriorNops(prog) ==
    LET insts == instructions(prog)
    IN  \A j, k \in 1..Len(insts) : j < k /\ insts[j].op = "NOP" => insts[k].op = "NOP"

\* C9: a run that starts from a label-free source program with no interior
\* NOPs, parsed (event 3) and assembled to a Binary B (event 4): B is
\* disassembled to text (event 5), the text is parsed again (event 7) and
\* assembled to B again (event 8), and the second disassembly (event 9)
\* gives the same text as the first.
C9_RoundTripClosure ==
    /\ trail[1].op = "source" /\ Len(trail) >= 4
    /\ LabelFree(trail[3].result.val) /\ NoInteriorNops(trail[3].result.val)
    /\ trail[4].result.ok
    => /\ Len(trail) >= 5 => trail[5].source.ok
       /\ Len(trail) >= 7 => trail[7].result.ok
       /\ Len(trail) >= 8 => trail[8].result = trail[4].result
       /\ Len(trail) >= 9 => trail[9].source = trail[5].source

\* C10: a run that starts from a Binary that disassembles without error
\* (event 2): the Parser accepts the text (event 4) and the Program it
\* returns holds the instructions disassemble returned, in order.
C10_TextReparses ==
    /\ trail[1].op = "binary" /\ Len(trail) >= 4
    /\ trail[2].program.ok
    => /\ trail[4].result.ok
       /\ instructions(trail[4].result.val) = instructions(trail[2].program.val)

-----------------------------------------------------------------------------
(* SpecDisassemble: Disassembler::disassemble applied to Binaries given as *)
(* words and to Binaries that Assembler::assemble returned                 *)

MaxRawWords == 4
MaxCalls == 2

\* The zero word, two instruction words, and 0xF8000005 (no such opcode).
RawWords ==
    {NOP_WORD,
     encode_instruction([op |-> "CLR"]).val,
     encode_instruction([op |-> "RDAX", reg |-> NamedReg("ADCR"),
                         coeff |-> Fin(-F32Den \div 2)]).val,
     [hi |-> 31, lo |-> 5]}

\* Binaries of up to MaxRawWords words (Binary::new and push), and the
\* shorter ones filled up to 128 words, with a last word that is zero or not.
RawImages ==
    LET short == UNION {[1..n -> RawWords] : n \in 0..MaxRawWords}
    IN  short
        \cup {PadWithNops(w) : w \in {x \in short : Len(x) <= 2}}
        \cup {[PadWithNops(w) EXCEPT ![MAX_INSTRUCTIONS] = RawWords_last] :
                w \in {x \in short : Len(x) <= 1},
                RawWords_last \in RawWords \ {NOP_WORD}}

\* Instructions a Program to assemble is made of: the last one cannot be
\* encoded.
ProgramInstructions ==
    {[op |-> "NOP"],
     [op |-> "CLR"],
     [op |-> "RDAX", reg |-> NamedReg("ADCL"), coeff |-> Fin(0)],
     [op |-> "RDAX", reg |-> NamedReg("ADCL"), coeff |-> Fin(F32Den \div 2)],
     [op |-> "MULX", reg |-> REG(0)],
     [op |-> "WRAX", reg |-> NamedReg("DACL"), coeff |-> Fin(0)],
     [op |-> "SOF", coeff |-> Fin(4 * F32Den), offset |-> Fin(0)]}

MaxProgram == 2

\* Programs of up to MaxProgram instructions, and Programs of 127 and 128
\* instructions that end with each of them.
DisPrograms ==
    {BuildProgram(Program_new, [k \in 1..Len(is) |-> Instruction(is[k])]) :
        is \in UNION {[1..n -> ProgramInstructions] : n \in 0..MaxProgram}}
    \cup {BuildProgram(Program_new,
                       [k \in 1..n |-> Instruction(IF k = n THEN i ELSE [op |-> "ABSA"])]) :
            i \in ProgramInstructions, n \in {MAX_INSTRUCTIONS - 1, MAX_INSTRUCTIONS}}

InitDisassemble ==
    /\ \/ /\ program \in DisPrograms
          /\ image = <<>>
          /\ trail = <<[op |-> "program"]>>
       \/ /\ program = NoCall
          /\ image \in RawImages
          /\ trail = <<[op |-> "binary"]>>
    /\ assembled = NoCall
    /\ text = <<>> /\ parser = NoCall
    /\ IdleBuilder /\ IdleEncode /\ IdleBinary

\* Assembler::new().assemble(&program)
AssembleProgram ==
    /\ Last(trail).op = "program"
    /\ LET r == assemble(FALSE, program)
       IN  /\ image' = IF r.ok THEN r.val ELSE image
           /\ trail' = Append(trail, [op |-> "assemble", result |-> r])
    /\ UNCHANGED <<builder, inst, encoded, decoded, program, assembled, binary, origin,
                   output, text, parser>>

HoldsBinary ==
    \/ trail[1].op = "binary"
    \/ Len(trail) >= 2 /\ trail[2].result.ok

\* Disassembler::new().disassemble(&binary)
DisassembleDefault ==
    /\ HoldsBinary /\ Len(trail) <= MaxCalls + 1
    /\ LET self == Disassembler_new
       IN  trail' = Append(trail, [op |-> "disassemble", self |-> self,
                                   result |-> disassemble(self.strip_nops, image)])
    /\ UNCHANGED <<builder, inst, encoded, decoded, program, assembled, binary, origin,
                   output, text, parser, image>>

\* Disassembler::new().with_strip_nops(strip).disassemble(&binary)
DisassembleWith(strip) ==
    /\ HoldsBinary /\ Len(trail) <= MaxCalls + 1
    /\ LET self == with_strip_nops(Disassembler_new, strip)
       IN  trail' = Append(trail, [op |-> "disassemble", self |-> self,
                                   result |-> disassemble(self.strip_nops, image)])
    /\ UNCHANGED <<builder, inst, encoded, decoded, program, assembled, binary, origin,
                   output, text, parser, image>>

NextDisassemble ==
    \/ AssembleProgram
    \/ DisassembleDefault
    \/ \E strip \in BOOLEAN : DisassembleWith(strip)

SpecDisassemble == InitDisassemble /\ [][NextDisassemble]_vars

-----------------------------------------------------------------------------
(* Claims checked under SpecDisassemble                                    *)

AllDecode(words) == \A k \in 1..Len(words) : decode_instruction(words[k]).ok

\* The smallest index (from 1) from which every word is zero; Len + 1 when
\* the last word is not zero, or when there is no word.
TrailingZerosFrom(words) ==
    CHOOSE k \in 1..(Len(words) + 1) :
        /\ \A j \in k..Len(words) : words[j] = NOP_WORD
        /\ k > 1 => words[k - 1] # NOP_WORD

\* The Program that holds, as plain Instruction statements and with no
\* label, the decoded words 1..n.
DecodedPrefix(words, n) ==
    [directives |-> <<>>,
     statements |-> [k \in 1..n |-> Instruction(decode_instruction(words[k]).val)],
     labels |-> <<>>]

DisassembleEvents == {k \in 1..Len(trail) : trail[k].op = "disassemble"}

\* C11: every disassemble call on a Binary whose words all decode returns,
\* with stripping on, the decoded words before the trailing run of zero
\* words (zero words before a later non-zero word are emitted as NOP) and,
\* with stripping off, one instruction for every word.
C11_StripsTrailingNops ==
    \A k \in DisassembleEvents :
        AllDecode(image) =>
            trail[k].result =
                IF trail[k].self.strip_nops
                THEN Ok(DecodedPrefix(image, TrailingZerosFrom(image) - 1))
                ELSE Ok(DecodedPrefix(image, Len(image)))

\* A default call on a Binary with a zero word before a non-zero word and
\* zero words at its end, which returned the NOP and dropped the end.
C11_Witness ==
    /\ Len(image) >= 3 /\ image[1] = NOP_WORD /\ image[2] # NOP_WORD
    /\ image[Len(image)] = NOP_WORD /\ AllDecode(image)
    /\ Len(trail) = 2 /\ trail[2].op = "disassemble"
    /\ trail[2].self = Disassembler_new
    /\ Len(instructions(trail[2].result.val)) = 2
    /\ instructions(trail[2].result.val)[1] = [op |-> "NOP"]

\* C12: a Program of at most 128 instructions that all encode and whose
\* last instruction is not NOP, assembled (event 2) and disassembled with
\* the default Disassembler: the Program returned holds as many
\* instructions as the one assembled.
C12_CountPreserved ==
    \A k \in DisassembleEvents :
        LET insts == instructions(program)
        IN  /\ trail[1].op = "program"
            /\ trail[k].self = Disassembler_new
            /\ insts # <<>> => insts[Len(insts)] # [op |-> "NOP"]
            => /\ trail[k].result.ok
               /\ Len(instructions(trail[k].result.val)) = Len(insts)

-----------------------------------------------------------------------------
(* ProgramBuilder (fv1-dsl/src/lib.rs)                                     *)

ProgramBuilder_new == [instructions |-> <<>>, labels |-> <<>>]

\* inst and add_inst: self.instructions.push(inst)
ProgramBuilder_inst(self, i) == [self EXCEPT !.instructions = Append(@, i)]

\* label with the index taken one too far.
ProgramBuilder_label_next(self, name) ==
    [self EXCEPT !.labels = HashMap_insert(@, name, Len(self.instructions) + 1)]

\* label and add_label: self.labels.insert(name, self.instructions.len())
ProgramBuilder_label(self, name) ==
    [self EXCEPT !.labels = HashMap_insert(@, name, Len(self.instructions))]

\* add_statement(Instruction(inst)) for every instruction, then
\* program.labels.insert(name, idx) for every entry of the builder's map
\* (the keys of a map are distinct, so the order of the walk does not show).
ProgramBuilder_build(self) ==
    LET prog == BuildProgram(Program_new,
                             [k \in 1..Len(self.instructions) |->
                                 Instruction(self.instructions[k])])
    IN  [prog EXCEPT !.labels =
            [n \in DOMAIN @ \cup DOMAIN self.labels |->
                IF n \in DOMAIN self.labels THEN self.labels[n] ELSE @[n]]]

\* self.labels.get(label).copied()
resolve_label(prog, name) ==
    IF name \in DOMAIN prog.labels THEN [some |-> TRUE, val |-> prog.labels[name]]
    ELSE [some |-> FALSE]

-----------------------------------------------------------------------------
(* SpecProgram: a Program grown by add_statement, one call at a time, and  *)
(* a ProgramBuilder given the corresponding calls                          *)

MaxStatements == 4

LabelNames == {"a", "b"}

\* The last one cannot be encoded (address out of range).
AppendInstructions ==
    {[op |-> "CLR"],
     [op |-> "RDAX", reg |-> NamedReg("ADCL"), coeff |-> Fin(F32Den \div 2)],
     [op |-> "RDA", addr |-> 40000, coeff |-> Fin(0)]}

InitProgram ==
    /\ program = Program_new
    /\ builder = ProgramBuilder_new
    /\ assembled = NoCall
    /\ IdleEncode /\ IdleBinary /\ IdleRoundTrip

Growing == assembled = NoCall /\ Len(program.statements) < MaxStatements

\* program.add_statement(Statement::Instruction(i)); builder.add_inst(i)
AppendInstruction(i) ==
    /\ Growing
    /\ program' = add_statement(program, Instruction(i))
    /\ builder' = ProgramBuilder_inst(builder, i)
    /\ UNCHANGED <<inst, encoded, decoded, assembled, binary, origin, output,
                   text, parser, image, trail>>

\* program.add_statement(Statement::Label(name)); builder.add_label(name)
AppendLabel(name) ==
    /\ Growing
    /\ program' = add_statement(program, Label(name))
    /\ builder' = ProgramBuilder_label(builder, name)
    /\ UNCHANGED <<inst, encoded, decoded, assembled, binary, origin, output,
                   text, parser, image, trail>>

\* program.add_statement(Statement::LabeledInstruction { label, instruction });
\* builder.add_label(label).add_inst(instruction)
AppendLabeledInstruction(name, i) ==
    /\ Growing
    /\ program' = add_statement(program, LabeledInstruction(name, i))
    /\ builder' = ProgramBuilder_inst(ProgramBuilder_label(builder, name), i)
    /\ UNCHANGED <<inst, encoded, decoded, assembled, binary, origin, output,
                   text, parser, image, trail>>

\* builder.build(), and Assembler::new().assemble on both Programs
BuildAndAssemble ==
    /\ assembled = NoCall
    /\ LET built == ProgramBuilder_build(builder)
       IN  assembled' = [built |-> built,
                         of_built |-> assemble(FALSE, built),
                         of_program |-> assemble(FALSE, program)]
    /\ UNCHANGED <<inst, encoded, decoded, program, binary, origin, output,
                   text, parser, image, trail, builder>>

NextProgram ==
    \/ \E i \in AppendInstructions : AppendInstruction(i)
    \/ \E name \in LabelNames : AppendLabel(name)
    \/ \E name \in LabelNames, i \in AppendInstructions : AppendLabeledInstruction(name, i)
    \/ BuildAndAssemble

SpecProgram == InitProgram /\ [][NextProgram]_vars

-----------------------------------------------------------------------------
(* Claims checked under SpecProgram                                        *)

\* C13: whatever has been appended, the Program the builder builds holds
\* the instructions and the label table of the Program grown by
\* add_statement, and the two assemble to the same result.
C13_BuilderAgrees ==
    /\ instructions(ProgramBuilder_build(builder)) = instructions(program)
    /\ ProgramBuilder_build(builder).labels = program.labels
    /\ assembled # NoCall =>
        /\ instructions(assembled.built) = instructions(program)
        /\ assembled.built.labels = program.labels
        /\ assembled.of_built = assembled.of_program

\* Instructions and labels interleaved, a name defined twice, and both
\* Programs assembled to a Binary.
C13_Witness ==
    /\ assembled # NoCall /\ assembled.of_program.ok /\ assembled.of_built.ok
    /\ Len(program.statements) = 4
    /\ program.statements[1].kind = "Label"
    /\ program.statements[2].kind = "Instruction"
    /\ program.statements[3] = Label(program.statements[1].label)
    /\ program.statements[4].kind = "Instruction"
    /\ resolve_label(assembled.built, program.statements[1].label).val = 1

Defines(statement, name) ==
    statement.kind \in {"Label", "LabeledInstruction"} /\ statement.label = name

DefinedNames(prog) ==
    {prog.statements[k].label :
        k \in {j \in 1..Len(prog.statements) : prog.statements[j].kind # "Instruction"}}

\* The number of instruction-bearing statements before statement k.
BearingBefore(prog, k) ==
    Cardinality({j \in 1..(k - 1) : prog.statements[j].kind # "Label"})

LastDefinition(prog, name) ==
    CHOOSE k \in 1..Len(prog.statements) :
        /\ Defines(prog.statements[k], name)
        /\ \A j \in (k + 1)..Len(prog.statements) : ~Defines(prog.statements[j], name)

LabelIndicesRecorded ==
    /\ DOMAIN program.labels = DefinedNames(program)
    /\ \A name \in DefinedNames(program) :
        /\ resolve_label(program, name) =
            [some |-> TRUE, val |-> BearingBefore(program, LastDefinition(program, name))]
        /\ resolve_label(program, name).val <= instruction_count(program)
    /\ \A name \in LabelNames \ DefinedNames(program) :
        resolve_label(program, name) = [some |-> FALSE]

\* An append leaves every recorded index as it was, but that of the name the
\* appended statement defines; a bare label leaves the instructions as they
\* were.
LabelIndicesKept ==
    Len(program'.statements) = Len(program.statements) + 1 =>
        LET statement == program'.statements[Len(program'.statements)]
        IN  /\ \A name \in DOMAIN program.labels :
                ~Defines(statement, name) =>
                    resolve_label(program', name) = resolve_label(program, name)
            /\ statement.kind = "Label" =>
                    instructions(program') = instructions(program)

\* C15: the label table after any sequence of add_statement calls.
C15_LabelIndices == [](LabelIndicesRecorded) /\ [][LabelIndicesKept]_vars

\* A name defined by a bare label and again by a labeled instruction two
\* instructions later, and another name whose index stayed.
C15_Witness ==
    /\ Len(program.statements) = 4
    /\ program.statements[1] = Label("a")
    /\ program.statements[2].kind = "LabeledInstruction"
    /\ program.statements[2].label = "b"
    /\ program.statements[3].kind = "Instruction"
    /\ Defines(program.statements[4], "a")
    /\ program.statements[4].kind = "LabeledInstruction"
    /\ resolve_label(program, "a") = [some |-> TRUE, val |-> 2]
    /\ resolve_label(program, "b") = [some |-> TRUE, val |-> 0]

-----------------------------------------------------------------------------
(* Further claims checked under SpecRoundTrip                              *)

\* C14: the source MULX POT0 parses (event 3) to the one instruction
\* MULX REG16 and assembles (event 4) to the Binary of the Program built
\* with MULX REG(16).
C14_PotIsRegister ==
    /\ trail[1].op = "source" /\ Len(trail) \in {3, 4}
    /\ text = <<"M", "U", "L", "X", " ", "P", "O", "T", "0", "\n">>
    => /\ trail[3].result.ok
       /\ instructions(trail[3].result.val) = <<[op |-> "MULX", reg |-> REG(16)]>>
       /\ Len(trail) = 4 =>
            trail[4].result =
                assemble(FALSE, ProgramBuilder_build(
                    ProgramBuilder_inst(ProgramBuilder_new,
                                        [op |-> "MULX", reg |-> REG(16)])))

-----------------------------------------------------------------------------
(* SpecDecode: decode_instruction applied to words given as bits, and to   *)
(* the word encode_instruction returns                                     *)

\* The low 21 bits tried under every value of bits 31..21.
LowBits == {0, 1, 2097151}

\* Every opcode (bits 31..27) with every value of bits 26..21.
DecodeWords ==
    {[hi |-> opcode, lo |-> top * 2097152 + low] :
        opcode \in 0..31, top \in 0..63, low \in LowBits}

\* Instructions whose word is decoded after encoding: the first two encode
\* to the zero word.
DecodeInstructions ==
    {[op |-> "NOP"],
     [op |-> "RDAX", reg |-> NamedReg("ADCL"), coeff |-> Fin(0)],
     [op |-> "CLR"],
     [op |-> "SKP", condition |-> "RUN", offset |-> 0]}

InitDecode ==
    /\ \/ /\ inst = [op |-> "NOP"]
          /\ encoded \in {Ok(word) : word \in DecodeWords}
       \/ /\ inst \in DecodeInstructions
          /\ encoded = NoCall
    /\ decoded = NoCall
    /\ IdleBuilder /\ IdleAssemble /\ IdleBinary /\ IdleRoundTrip

NextDecode == Encode \/ Decode

SpecDecode == InitDecode /\ [][NextDecode]_vars

-----------------------------------------------------------------------------
(* Claims checked under SpecDecode                                         *)

UnassignedOpcodes == {3, 4} \cup 26..31

RegisterOpcodes == {0, 6, 10, 9, 12, 5}

RegisterCodes == 0..5 \cup 16..47

\* What decode_instruction returns for a word it refuses;
\* [ok |-> TRUE] for a word it decodes.
Refusal(word) ==
    LET opcode == word.hi
        top6 == word.lo \div 2097152
        top3 == word.lo \div 16777216
        mode == (word.lo \div 16777216) % 4
    IN  IF word # [hi |-> 0, lo |-> 0] /\ opcode \in UnassignedOpcodes
        THEN Err([e |-> "InvalidOpcode", opcode |-> opcode])
        ELSE IF word # [hi |-> 0, lo |-> 0] /\ opcode \in RegisterOpcodes
                /\ top6 \notin RegisterCodes
        THEN Err([e |-> "InvalidRegister", bits |-> top6])
        ELSE IF opcode = 22 /\ top3 \in {5, 6, 7}
        THEN Err([e |-> "InvalidSkipCondition", bits |-> top3])
        ELSE IF opcode = 25 /\ mode = 1
        THEN Err([e |-> "InvalidChoMode", bits |-> 1])
        ELSE [ok |-> TRUE]

\* C16: decode_instruction returns a value for every word: the typed error
\* with the raw bits of the failing field in the four cases, and an
\* Instruction for every other word.
C16_DecodeTotal ==
    decoded # NoCall =>
        /\ DOMAIN decoded \in {{"ok", "val"}, {"ok", "err"}}
        /\ IF Refusal(encoded.val).ok
           THEN decoded.ok /\ "op" \in DOMAIN decoded.val
           ELSE decoded = Refusal(encoded.val)

\* A register field of 6 under LDAX, refused with its bits, next to which
\* the fields 5 and 16 decode.
C16_Witness ==
    /\ encoded = Ok([hi |-> 5, lo |-> 6 * 2097152 + 1])
    /\ decoded = Err([e |-> "InvalidRegister", bits |-> 6])

\* C17: NOP encodes to 0x00000000, 0x00000000 decodes to NOP, and no other
\* word decodes to NOP.
C17_NopIsZeroWord ==
    /\ [](encoded # NoCall /\ encoded.ok /\ decoded # NoCall =>
            (decoded = Ok([op |-> "NOP"]) <=> encoded.val = [hi |-> 0, lo |-> 0]))
    /\ [][inst = [op |-> "NOP"] /\ encoded = NoCall =>
            encoded' = Ok([hi |-> 0, lo |-> 0])]_vars

\* NOP encoded to the zero word and decoded from it.
C17_Witness ==
    /\ inst = [op |-> "NOP"] /\ encoded = Ok([hi |-> 0, lo |-> 0])
    /\ decoded = Ok([op |-> "NOP"])

-----------------------------------------------------------------------------
(* Further claims checked under SpecEncode                                 *)

\* The opcode constant of each arm of encode_instruction (`0b....._u32 << 27`).
PrimaryOpcode ==
    [RDAX |-> 0, RDA |-> 1, RMPA |-> 2, WRAX |-> 6, WRA |-> 7, WRAP |-> 8,
     MULX |-> 10, RDFX |-> 9, RDFX2 |-> 12, LDAX |-> 5, ABSA |-> 11, SOF |-> 13,
     AND |-> 15, OR |-> 16, XOR |-> 17, SHL |-> 18, SHR |-> 19, CLR |-> 14,
     EXP |-> 20, LOG |-> 21, SKP |-> 22, WLDS |-> 23, JAM |-> 24, CHO |-> 25]

\* C18: the 24 variants other than NOP have 24 distinct 5-bit opcodes, and
\* bits 31-27 of every word encode_instruction returns for such a variant
\* are its opcode, whatever the operands.
C18_OpcodeBitsFixed ==
    /\ Cardinality(DOMAIN PrimaryOpcode) = 24
    /\ \A v \in DOMAIN PrimaryOpcode : PrimaryOpcode[v] \in 0..31
    /\ \A v, w \in DOMAIN PrimaryOpcode : v # w => PrimaryOpcode[v] # PrimaryOpcode[w]
    /\ encoded # NoCall /\ encoded.ok /\ inst.op # "NOP" =>
            /\ inst.op \in DOMAIN PrimaryOpcode
            /\ Field(encoded.val, 27, 31) = PrimaryOpcode[inst.op]

\* JAM RMP1 encoded: the LFO field, next to the opcode, has both bits set.
C18_Witness ==
    /\ inst = [op |-> "JAM", lfo |-> "RMP1"]
    /\ encoded = Ok([hi |-> 24, lo |-> 3 * 33554432])

-----------------------------------------------------------------------------
(* Further claims checked under SpecAssemble                               *)

\* The positions (from 1) of the instructions that do not encode.
Failing(prog) ==
    {k \in 1..Len(Bearing(prog)) : ~encode_instruction(NthInstruction(prog, k)).ok}

FirstFailing(prog) == CHOOSE k \in Failing(prog) : \A j \in Failing(prog) : k <= j

\* C19: a Program of at most 128 instructions of which at least one does
\* not encode: assemble returns the error of the first of them, and no
\* Binary, whatever comes after it.
C19_FirstFailureAborts ==
    /\ assembled # NoCall
    /\ Len(Bearing(program)) <= MAX_INSTRUCTIONS
    /\ Failing(program) # {}
    => /\ ~assembled.result.ok
       /\ DOMAIN assembled.result = {"ok", "err"}
       /\ assembled.result
            = encode_instruction(NthInstruction(program, FirstFailing(program)))

\* Three instructions that fail in three ways, the first after an
\* instruction that encodes: the error is that of the first.
C19_Witness ==
    /\ assembled # NoCall
    /\ Len(Bearing(program)) = 3
    /\ Failing(program) = {2, 3}
    /\ NthInstruction(program, 2).op = "SOF" /\ NthInstruction(program, 3).op = "WRA"
    /\ assembled.result = Err([e |-> "CoefficientOutOfRange", value |-> Fin(98304)])

-----------------------------------------------------------------------------
(* SpecParse: Parser::new and Parser::parse on sources that hold errors    *)

MaxParseLines == 2

\* A statement, an identifier that starts no statement, a bare label, a
\* character no rule matches (as an operand, alone, and after an
\* identifier), a number for a register, a missing operand, a directive.
ParseLines ==
    {<<"C", "L", "R", "\n">>,
     <<"f", "o", "o", "\n">>,
     <<"t", "o", "p", ":", "\n">>,
     <<"R", "D", "A", "X", " ", "A", "D", "C", "L", ",", " ", "@", "\n">>,
     <<"@", "\n">>,
     <<"f", "o", "o", " ", "@", "\n">>,
     <<"M", "U", "L", "X", " ", "5", "\n">>,
     <<"S", "K", "P", " ", "N", "E", "G", "\n">>,
     <<"E", "Q", "U", " ", "x", ",", " ", "1", "\n">>}

ParseSources ==
    {Concat(lines, Len(lines)) :
        lines \in UNION {[1..n -> ParseLines] : n \in 1..MaxParseLines}}

InitParse ==
    /\ text \in ParseSources
    /\ image = <<>>
    /\ trail = <<[op |-> "source"]>>
    /\ parser = NoCall
    /\ IdleBuilder /\ IdleEncode /\ IdleAssemble /\ IdleBinary

NextParse == NewParser \/ Parse

SpecParse == InitParse /\ [][NextParse]_vars

-----------------------------------------------------------------------------
(* Claims checked under SpecParse                                          *)

\* Characters that start no token and are not skipped.
Unmatched == {"@", "!", "?", "&", "(", ")"}

\* Every entry the lexer gives is a token or an error token, with the span
\* of text it was cut from; an error token covers one unmatched character.
LexerNeverFails ==
    parser # NoCall =>
        \A k \in 1..Len(parser.tokens) :
            LET entry == parser.tokens[k]
            IN  /\ 0 <= entry.span.start /\ entry.span.start < entry.span.end
                /\ entry.span.end <= Len(text)
                /\ k > 1 => parser.tokens[k - 1].span.end <= entry.span.start
                /\ \/ entry.tok.ok
                   \/ /\ entry.tok = Err("()")
                      /\ entry.span.end = entry.span.start + 1
                      /\ text[entry.span.end] \in Unmatched

Parsed == parser # NoCall /\ Last(trail).op = "parse"

\* The parse stopped at its first error: an Err carries no Program, and the
\* cursor has passed no error token but, at most, the one it stopped on.
StopsAtFirstError ==
    Parsed /\ ~Last(trail).result.ok =>
        /\ DOMAIN Last(trail).result = {"ok", "err"}
        /\ parser.pos <= Len(parser.tokens)
        /\ \A k \in 1..(parser.pos - 1) : parser.tokens[k].tok.ok

\* InvalidToken is returned exactly when the cursor has consumed an error
\* token, and carries the span of that token.
InvalidTokenWhenConsumed ==
    Parsed =>
        LET consumed == {k \in 1..parser.pos : ~parser.tokens[k].tok.ok}
            reported == /\ ~Last(trail).result.ok
                        /\ Last(trail).result.err.e = "InvalidToken"
        IN  /\ reported <=> consumed # {}
            /\ reported =>
                Last(trail).result = Err(InvalidToken(parser.tokens[parser.pos].span))

\* Token entries put in the place of the tokens the cursor did not reach.
After(names) ==
    [k \in 1..Len(names) |->
        [tok |-> IF names[k] = "()" THEN Err("()") ELSE Ok([t |-> names[k]]),
         span |-> [start |-> 1000 + k, end |-> 1001 + k]]]

Suffixes ==
    {After(names) : names \in {<<>>, <<"Colon">>, <<"Comma">>, <<"CLR">>, <<"()">>,
                               <<"Colon", "CLR">>, <<"CLR", "Colon">>}}

\* parse on the tokens the cursor consumed, followed by suffix.
Reparse(suffix) ==
    Returned(parse([tokens |-> SubSeq(parser.tokens, 1, parser.pos) \o suffix,
                    pos |-> 0]))

HasOffendingToken ==
    /\ Parsed /\ ~Last(trail).result.ok
    /\ Last(trail).result.err # UnexpectedEof

\* C20 as stated: once a token is reported, whatever follows it has no part
\* in the result.
C20_NothingAfterExamined ==
    /\ LexerNeverFails /\ StopsAtFirstError /\ InvalidTokenWhenConsumed
    /\ HasOffendingToken =>
        \A suffix \in Suffixes : Reparse(suffix) = Last(trail).result

\* C20: the parse stops at its first error and returns it with no Program;
\* the tokens after the reported one have no part in the result, but that
\* the token after an identifier is looked at for being a colon; the lexer
\* gives an error token with its span for an unmatched character, and
\* InvalidToken with that span is returned when, and only when, the cursor
\* consumes it.
C20_StopsAtFirstError ==
    /\ LexerNeverFails /\ StopsAtFirstError /\ InvalidTokenWhenConsumed
    /\ HasOffendingToken =>
        \A suffix \in Suffixes :
            \/ Reparse(suffix) = Last(trail).result
            \/ /\ HasToken(parser.tokens[parser.pos], {"Identifier"})
               /\ HasToken(suffix[1], {"Colon"})

\* An error token consumed as the operand of the second line and reported
\* with its span, after a first line that holds an identifier.
C20_Witness ==
    /\ Parsed
    /\ text = <<"t", "o", "p", ":", "\n",
               "R", "D", "A", "X", " ", "A", "D", "C", "L", ",", " ", "@", "\n">>
    /\ parser.pos = 6 /\ Len(parser.tokens) = 6
    /\ Last(trail).result = Err(InvalidToken([start |-> 16, end |-> 17]))

-----------------------------------------------------------------------------
(* Operand fields (encoder.rs), checked under SpecEncode                   *)

RegCoeffOps == {"RDAX", "WRAX", "RDFX", "RDFX2"}

\* round(value * 2^14) of an f32 given over F32Den, as an integer.
ScaledS114(value) == RoundDiv(value.n, F32Den \div FIXED_POINT_SCALE)

\* C21: for RDAX, WRAX, RDFX and RDFX2 an encoded word holds the register
\* code, a value below 64, at bits 26..21, round(coeff * 2^14) modulo 2^15
\* at bits 20..6 and nothing at bits 5..0; RDAX ADCL, 1.0 is encoded, with
\* opcode bits 0 and the coefficient field 0x4000.
C21_RegCoeffFields ==
    /\ inst.op \in RegCoeffOps /\ encoded.ok =>
          /\ encode_register(inst.reg).val \in 0..63
          /\ Field(encoded.val, 21, 63) = encode_register(inst.reg).val
          /\ Field(encoded.val, 6, 32767) = ScaledS114(inst.coeff) % 32768
          /\ Field(encoded.val, 0, 63) = 0
    /\ inst = [op |-> "RDAX", reg |-> NamedReg("ADCL"), coeff |-> Fin(F32Den)]
       /\ encoded # NoCall =>
          /\ encoded.ok
          /\ Field(encoded.val, 27, 31) = 0
          /\ Field(encoded.val, 6, 32767) = 16384

\* WRAX REG31, -0.5 encoded: register code 47, coefficient field 0x6000.
C21_Witness ==
    /\ inst = [op |-> "WRAX", reg |-> REG(31), coeff |-> Fin(-16384)]
    /\ encoded = Ok([hi |-> 6, lo |-> 47 * 2097152 + 24576 * 64])

CoeffOffsetOps == {"SOF", "EXP", "LOG"}

\* round(value * 2^9) of an f32 given over F32Den, as an integer.
ScaledS10(value) == RoundDiv(value.n, F32Den \div S10_SCALE)

\* C22: for SOF, EXP and LOG an encoded word holds round(coeff * 2^14) in
\* 16-bit two's complement at bits 26..11 and round(offset * 2^9) in 11-bit
\* two's complement at bits 10..0, and two distinct grid coefficients of
\* [-2.0, 2.0) never give the same coefficient field.
C22_CoeffOffsetFields ==
    inst.op \in CoeffOffsetOps /\ encoded.ok =>
        /\ Field(encoded.val, 11, 65535) = ScaledS114(inst.coeff) % 65536
        /\ Field(encoded.val, 0, 2047) = ScaledS10(inst.offset) % 2048
        /\ \A c \in CoeffGrid :
              LET other == encode_instruction([inst EXCEPT !.coeff = c])
              IN  inst.coeff \in CoeffGrid /\ c # inst.coeff =>
                      /\ other.ok
                      /\ Field(other.val, 11, 65535) # Field(encoded.val, 11, 65535)

\* C23: a SKP with an offset in -32..31 is encoded, the word holds the
\* condition code at bits 26..24 and the offset in 6-bit two's complement at
\* bits 23..18, and decoding the word gives the same condition and offset.
C23_SkipRoundTrip ==
    inst.op = "SKP" /\ inst.offset \in -32..31 =>
        /\ encoded # NoCall =>
              /\ encoded.ok
              /\ Field(encoded.val, 24, 7) = encode_skip_condition(inst.condition)
              /\ Field(encoded.val, 18, 63) = inst.offset % 64
        /\ decoded # NoCall => decoded = Ok(inst)

-----------------------------------------------------------------------------
(* Labels and line breaks (parser.rs:46-67), checked under SpecParse       *)

\* The places k of the token list that hold an identifier and, next, a colon.
LabelPairs(tokens) ==
    {k \in 1..(Len(tokens) - 1) :
        HasToken(tokens[k], {"Identifier"}) /\ HasToken(tokens[k + 1], {"Colon"})}

\* The j-th member of a finite set of integers, in ascending order.
Nth(set, j) == CHOOSE k \in set : Cardinality({i \in set : i < k}) = j - 1

\* An instruction-starting token follows the colon at k + 1 with no line
\* break in the text between the two.
InstructionOnSameLine(source, tokens, k) ==
    /\ k + 2 <= Len(tokens)
    /\ HasToken(tokens[k + 2], InstructionTokens)
    /\ \A c \in (tokens[k + 1].span.end + 1)..tokens[k + 2].span.start :
            source[c] # "\n"

\* C27: in a parsed Program the statements that carry a label are, in order,
\* those of the (identifier, colon) pairs of the text, and such a statement
\* is a LabeledInstruction exactly when an instruction-starting token follows
\* the colon on the same line; after a line break the label is a bare Label
\* and the instruction a statement of its own.
C27_LabelLineBreak ==
    Parsed /\ Last(trail).result.ok =>
        LET pairs == LabelPairs(parser.tokens)
            labelled == SelectSeq(Last(trail).result.val.statements,
                                  LAMBDA s : s.kind # "Instruction")
        IN  /\ Len(labelled) = Cardinality(pairs)
            /\ \A j \in 1..Len(labelled) :
                  labelled[j].kind = "LabeledInstruction"
                      <=> InstructionOnSameLine(text, parser.tokens, Nth(pairs, j))

-----------------------------------------------------------------------------
(* SpecParseLoop: Parser::new, then the loop of Parser::parse one          *)
(* iteration at a time, on sources with operands of every kind             *)

MaxLoopLines == 2

\* Statements and directives that parse, CHO with every kind of token in
\* the place of the flags, and a wrong token at each kind of operand place.
LoopLines ==
    {<<"C", "L", "R", "\n">>,
     <<"t", "o", "p", ":", "\n">>,
     <<"f", "o", "o", "\n">>,
     <<"@", "\n">>,
     <<"C", "H", "O", " ", "R", "D", "A", ",", " ", "S", "I", "N", "0", ",", " ", "N", "A", ",", " ", "5", "\n">>,
     <<"C", "H", "O", " ", "S", "O", "F", ",", " ", "R", "M", "P", "1", ",", " ", "0", ",", " ", "7", "\n">>,
     <<"C", "H", "O", " ", "R", "D", "A", "L", ",", " ", "S", "I", "N", "1", ",", " ", "C", "L", "R", ",", " ", "9", "\n">>,
     <<"C", "H", "O", " ", "R", "D", "A", ",", " ", "S", "I", "N", "0", ",", " ", ",", ",", " ", "5", "\n">>,
     <<"C", "H", "O", " ", "R", "D", "A", ",", " ", "S", "I", "N", "0", ",", " ", "@", ",", " ", "5", "\n">>,
     <<"C", "H", "O", " ", "R", "D", "A", ",", " ", "S", "I", "N", "0", ",", " ", "N", "A", " ", "5", "\n">>,
     <<"C", "H", "O", " ", "R", "D", "A", ",", " ", "S", "I", "N", "0", ",", " ", "N", "A", ",", " ", "C", "L", "R", "\n">>,
     <<"C", "H", "O", " ", "R", "D", "A", ",", " ", "S", "I", "N", "0", ",", "\n">>,
     <<"C", "H", "O", " ", "1", ",", " ", "S", "I", "N", "0", ",", " ", "N", "A", ",", " ", "5", "\n">>,
     <<"R", "D", "A", "X", " ", "5", ",", " ", "1", ".", "0", "\n">>,
     <<"R", "D", "A", "X", " ", "A", "D", "C", "L", " ", "1", ".", "0", "\n">>,
     <<"R", "D", "A", " ", "5", ",", " ", "C", "L", "R", "\n">>,
     <<"S", "K", "P", " ", "f", "o", "o", ",", " ", "1", "\n">>,
     <<"J", "A", "M", " ", "3", "\n">>,
     <<"E", "Q", "U", " ", "x", ",", " ", "1", "\n">>,
     <<"E", "Q", "U", " ", "x", ",", " ", "C", "L", "R", "\n">>,
     <<"E", "Q", "U", " ", "5", ",", " ", "1", "\n">>,
     <<"M", "E", "M", " ", "b", "u", "f", " ", "5", "\n">>}

LoopSources ==
    {Concat(lines, Len(lines)) :
        lines \in UNION {[1..n -> LoopLines] : n \in 1..MaxLoopLines}}

InitParseLoop ==
    /\ text \in LoopSources
    /\ image = <<>>
    /\ trail = <<[op |-> "source"]>>
    /\ parser = NoCall
    /\ IdleBuilder /\ IdleEncode /\ IdleAssemble /\ IdleBinary

\* parse is in its loop: entered, and not yet returned.
InLoop == Last(trail).op \in {"new", "iteration"}

\* The local `program` of parse.
LoopProgram ==
    IF Last(trail).op = "iteration" THEN Last(trail).program ELSE Program_new

\* The call an iteration makes: parse_directive or parse_statement.
LoopCall(tokens, pos) ==
    IF check_directive(tokens, pos) THEN parse_directive(tokens, pos)
    ELSE parse_statement(tokens, pos)

\* `program` after an iteration whose call returned Ok(r.val).
LoopPush(tokens, pos, prog, r) ==
    IF check_directive(tokens, pos)
    THEN [prog EXCEPT !.directives = Append(@, r.val)]
    ELSE add_statement(prog, r.val)

\* What an iteration whose call returned r leaves: the cursor where the
\* call left it, and either the grown Program or, through ?, the error as
\* the result of parse.
Iterate(r) ==
    /\ parser' = [parser EXCEPT !.pos = r.pos]
    /\ trail' = Append(trail,
            IF r.ok
            THEN [op |-> "iteration",
                  program |-> LoopPush(parser.tokens, parser.pos, LoopProgram, r)]
            ELSE [op |-> "parse", result |-> Err(r.err)])

ParseIteration ==
    /\ InLoop
    /\ ~is_at_end(parser.tokens, parser.pos)
    /\ Iterate(LoopCall(parser.tokens, parser.pos))
    /\ UNCHANGED <<builder, inst, encoded, decoded, program, assembled, binary, origin,
                   output, text, image>>

ParseReturn ==
    /\ InLoop
    /\ is_at_end(parser.tokens, parser.pos)
    /\ trail' = Append(trail, [op |-> "parse", result |-> Ok(LoopProgram)])
    /\ UNCHANGED <<builder, inst, encoded, decoded, program, assembled, binary, origin,
                   output, text, parser, image>>

NextParseLoop == NewParser \/ ParseIteration \/ ParseReturn

\* parse runs to its return once called: nothing suspends it.  The calls of
\* NewParser and ParseIteration return on every input, so each is enabled
\* exactly when its first conjuncts hold, and weak fairness of the two is
\* written with those conditions.
LoopFairness ==
    /\ []<>(Last(trail).op # "source") \/ []<><<NewParser>>_vars
    /\ \/ []<>(~InLoop \/ is_at_end(parser.tokens, parser.pos))
       \/ []<><<ParseIteration>>_vars
    /\ WF_vars(ParseReturn)

SpecParseLoop == InitParseLoop /\ [][NextParseLoop]_vars /\ LoopFairness

\* The loop taken one iteration at a time returns what parse returns, and
\* leaves the cursor where parse leaves it.
LoopAgrees ==
    Parsed =>
        LET whole == parse(Parser_new(text))
        IN  Last(trail).result = Returned(whole) /\ parser.pos = whole.pos

-----------------------------------------------------------------------------
(* Claims checked under SpecParseLoop                                      *)

\* The places k of the token list where parse_instruction, started on a CHO
\* at k - 5, calls parse_cho_flags: after CHO mode , lfo ,
FlagsPlaces(tokens) ==
    {k \in 6..Len(tokens) :
        /\ HasToken(tokens[k - 5], {"CHO"})
        /\ HasToken(tokens[k - 4], {"RDA", "SOF", "RDAL"})
        /\ HasToken(tokens[k - 3], {"Comma"})
        /\ HasToken(tokens[k - 2], {"SIN0", "SIN1", "RMP0", "RMP1"})
        /\ HasToken(tokens[k - 1], {"Comma"})}

\* The instructions of the Program the loop has built so far or returned.
BuiltInstructions ==
    CASE Last(trail).op = "iteration" -> instructions(Last(trail).program)
      [] Last(trail).op = "parse" /\ Last(trail).result.ok ->
            instructions(Last(trail).result.val)
      [] OTHER -> <<>>

\* C24: parse_cho_flags consumes the one token at the flags place, whatever
\* token it is, and returns all-false flags; the CHO is then parsed exactly
\* when a comma and a number follow, and no CHO of a parsed Program has a
\* flag set.
C24_ChoFlagsIgnored ==
    parser # NoCall =>
        /\ \A k \in FlagsPlaces(parser.tokens) :
              parser.tokens[k].tok.ok =>
                 LET cho == parse_instruction(parser.tokens, k - 6)
                 IN  /\ parse_cho_flags(parser.tokens, k - 1) = POk(NoFlags, k)
                     /\ cho.ok <=> /\ k + 2 <= Len(parser.tokens)
                                   /\ HasToken(parser.tokens[k + 1], {"Comma"})
                                   /\ HasToken(parser.tokens[k + 2], {"Float", "Integer"})
                     /\ cho.ok => cho.val.flags = NoFlags /\ cho.pos = k + 2
                     /\ ~cho.ok => cho.pos \in (k + 1)..(k + 2) \/ cho.err = UnexpectedEof
        /\ \A j \in 1..Len(BuiltInstructions) :
              BuiltInstructions[j].op = "CHO" => BuiltInstructions[j].flags = NoFlags

\* CHO RDAL, SIN1, CLR, 9: the instruction keyword at the flags place is
\* consumed as the flags, and the CHO parsed has no flag set.
C24_Witness ==
    /\ Parsed
    /\ text = <<"C", "H", "O", " ", "R", "D", "A", "L", ",", " ", "S", "I", "N", "1", ",", " ", "C", "L", "R", ",", " ", "9", "\n">>
    /\ parser.pos = 8 /\ HasToken(parser.tokens[6], {"CLR"})
    /\ Last(trail).result.ok
    /\ instructions(Last(trail).result.val) =
          <<[op |-> "CHO", mode |-> "RDAL", lfo |-> "SIN1", flags |-> NoFlags,
             addr |-> 9]>>

\* C25: a ParseError that carries a span carries the span of the token the
\* cursor consumed last, which is the token found at the failing place, in
\* instructions and in directives (the value of an EQU included).
C25_SpanOfFoundToken ==
    Parsed /\ ~Last(trail).result.ok /\ "span" \in DOMAIN Last(trail).result.err =>
        /\ Last(trail).result.err.e \in
              {"UnexpectedToken", "ExpectedRegister", "ExpectedNumber", "InvalidToken"}
        /\ parser.pos \in 1..Len(parser.tokens)
        /\ Last(trail).result.err.span = parser.tokens[parser.pos].span

\* The cursor is within the token list.
CursorInBounds == parser # NoCall => parser.pos \in 0..Len(parser.tokens)

\* A step leaves the tokens as they are and never moves the cursor back, and
\* an iteration of the loop moves it forward by at least one token unless it
\* ends parse with an error.
CursorAdvances ==
    parser # NoCall =>
        /\ parser' # NoCall
        /\ parser'.tokens = parser.tokens
        /\ parser'.pos >= parser.pos
        /\ InLoop /\ ~is_at_end(parser.tokens, parser.pos) /\ trail' # trail =>
              \/ parser'.pos > parser.pos
              \/ Last(trail').op = "parse" /\ ~Last(trail').result.ok

\* C29: the cursor of parse stays within the token list and never decreases,
\* every iteration of the loop ends parse with an error or advances the
\* cursor by at least one token, and parse returns.
C29_ParseTerminates ==
    /\ []CursorInBounds
    /\ [][CursorAdvances]_vars
    /\ <>(Last(trail).op = "parse")

\* parse has returned Ok after two iterations, each of more than one token,
\* with the cursor at the end of the tokens.
C29_Witness ==
    /\ Parsed /\ Last(trail).result.ok
    /\ Len(trail) = 5 /\ trail[3].op = "iteration" /\ trail[4].op = "iteration"
    /\ parser.pos = Len(parser.tokens) /\ parser.pos > 4

-----------------------------------------------------------------------------
(* SpecAddress: a delay-memory instruction with an integer address literal *)
(* taken through Parser::new, parse and assemble                           *)

\* Literals within 0..32767, above 32767, above 65535, and negative.
AddressLiterals ==
    {<<"0">>, <<"1">>, <<"1", "0", "0">>, <<"3", "2", "7", "6", "7">>,
     <<"3", "2", "7", "6", "8">>, <<"4", "0", "0", "0", "0">>, <<"6", "5", "5", "3", "5">>,
     <<"6", "5", "5", "3", "6">>, <<"7", "0", "0", "0", "0">>, <<"1", "0", "0", "0", "0", "0">>,
     <<"-", "1">>, <<"-", "1", "0", "0">>, <<"-", "3", "2", "7", "6", "8">>, <<"-", "7", "0", "0", "0", "0">>}

AddressOps == {"RDA", "WRA", "WRAP"}

\* op literal, 0.5
AddressSources ==
    {Keyword[op] \o <<" ">> \o literal \o <<",", " ", "0", ".", "5", "\n">> :
        op \in AddressOps, literal \in AddressLiterals}

InitAddress ==
    /\ text \in AddressSources
    /\ image = <<>>
    /\ trail = <<[op |-> "source"]>>
    /\ parser = NoCall
    /\ IdleBuilder /\ IdleEncode /\ IdleAssemble /\ IdleBinary

NextAddress == NewParser \/ Parse \/ AssembleParsed

SpecAddress == InitAddress /\ [][NextAddress]_vars

\* The places of the token list that hold an integer literal as the address
\* of RDA, WRA or WRAP, the value written being outside the delay memory.
OutOfRangeAddresses(tokens) ==
    {k \in 2..Len(tokens) :
        /\ HasToken(tokens[k - 1], AddressOps)
        /\ HasToken(tokens[k], {"Integer"})
        /\ tokens[k].tok.val.i \notin 0..(DELAY_RAM_SIZE - 1)}

\* C26: a source whose address literal is outside 0..32767 is parsed without
\* error, and assemble then rejects the Program with AddressOutOfRange: it
\* is never assembled.
C26_AddressRangeAtEncode ==
    parser # NoCall /\ OutOfRangeAddresses(parser.tokens) # {} =>
        /\ Last(trail).op = "parse" => Last(trail).result.ok
        /\ Last(trail).op = "assemble" =>
              /\ ~Last(trail).result.ok
              /\ Last(trail).result.err.e = "AddressOutOfRange"

-----------------------------------------------------------------------------
(* Decoded instructions and the encoder's domain, checked under SpecDecode *)

\* C28: every instruction decode_instruction returns is one that
\* encode_instruction accepts.
C28_DecodedEncodes ==
    decoded # NoCall /\ decoded.ok => encode_instruction(decoded.val).ok

-----------------------------------------------------------------------------
(* Register codes (encoder.rs:193-206), checked under SpecEncode           *)

RegisterOps == {"RDAX", "WRAX", "MULX", "RDFX", "RDFX2", "LDAX"}

\* ACC, the I/O ports, ADDR_PTR, LR, the LFO rate and range registers, and
\* REG(0) to REG(31).
Registers == RegPool \cup {REG(n) : n \in 0..31}

\* C30: an encoded register-bearing instruction and the same instruction
\* with any other Register never encode to the same word.
C30_RegisterInjective ==
    inst.op \in RegisterOps /\ encoded.ok =>
        \A reg \in Registers \ {inst.reg} :
            encode_instruction([inst EXCEPT !.reg = reg]) # encoded

====
